---- MODULE Spec2Model ----
(***************************************************************************)
(* valgo: validation pipes (lib/v).  A pipe holds one value and an ordered *)
(* list of actions; a PipeRegistry holds an ordered list of pipes and      *)
(* validates them either sequentially (Validate, fail-fast) or with one    *)
(* goroutine per pipe (ValidateAll, mutex-guarded accumulator, WaitGroup). *)
(***************************************************************************)
EXTENDS Integers, Sequences, FiniteSets, TLC

\* ------------------------------------------------------------------ bounds
MaxActions == 2      \* longest action list of a stand-alone pipe
MaxPipes == 3        \* longest pipe list handed to NewPipesBuilder
MaxNow == 2          \* how far the wall clock advances
MaxFields == 2       \* most entries of a map the caller builds itself
MaxPieces == 2       \* most pieces a message template is put together from
MaxList == 3         \* longest SchemaErrorList a caller puts together itself
MaxGo == 2           \* most goroutines validating one pipe at the same time

\* ------------------------------------------------------------- nil values
\* a nil error (the `error` interface holding nothing)
NilErr == [nil |-> TRUE]
\* a nil *SchemaError
NilSchemaError == [nilptr |-> TRUE]
\* the nil SchemaErrorList (a nil slice) and the non-nil empty one
NilList == [isNil |-> TRUE, items |-> <<>>]
EmptyList == [isNil |-> FALSE, items |-> <<>>]

\* fmt.Errorf("%s", msg): a non-nil error carrying msg
Errorf(msg) == [msg |-> msg]

\* &SchemaError{Key: key, Err: err}
SchemaError(key, err) == [Key |-> key, Err |-> err]

\* ------------------------------------------------------------- Go strings
\* A Go string is a string of the model; the strings and strconv functions
\* the library calls are computed character by character.

\* strings.Contains(s, substr)
Contains(s, substr) ==
    \E i \in 1..(Len(s) - Len(substr) + 1) :
        SubSeq(s, i, i + Len(substr) - 1) = substr

\* strings.Replace(s, old, new, -1) for a non-empty old: every
\* non-overlapping occurrence, left to right; replaced text is not rescanned
RECURSIVE Replace(_, _, _)
Replace(s, old, new) ==
    IF Len(s) < Len(old) THEN s
    ELSE IF SubSeq(s, 1, Len(old)) = old
         THEN new \o Replace(SubSeq(s, Len(old) + 1, Len(s)), old, new)
         ELSE SubSeq(s, 1, 1) \o Replace(SubSeq(s, 2, Len(s)), old, new)

\* the decimal digit d as text
Digit(d) == SubSeq("0123456789", d + 1, d + 1)

\* strconv.FormatUint(n, 10)
RECURSIVE FormatUint(_)
FormatUint(n) ==
    IF n < 10 THEN Digit(n) ELSE FormatUint(n \div 10) \o Digit(n % 10)

\* strconv.FormatInt(n, 10)
FormatInt(n) == IF n < 0 THEN "-" \o FormatUint(0 - n) ELSE FormatUint(n)

\* strconv.Itoa(n)
Itoa(n) == FormatInt(n)

\* strconv.FormatBool(b)
FormatBool(b) == IF b THEN "true" ELSE "false"

\* A float is kept as the decimal mant / 10^exp it was written as.
Float(mant, exp) == [mant |-> mant, exp |-> exp]

\* the digits after the decimal point of frac / 10^exp, up to the last
\* non-zero one
RECURSIVE FracDigits(_, _)
FracDigits(frac, exp) ==
    IF frac = 0 THEN ""
    ELSE Digit(frac \div (10 ^ (exp - 1)))
           \o FracDigits(frac % (10 ^ (exp - 1)), exp - 1)

\* strconv.FormatFloat(f, 'f', -1, bits): the shortest decimal that reads
\* back as f, without exponent
FormatFloat(f) ==
    LET abs == IF f.mant < 0 THEN 0 - f.mant ELSE f.mant
        int == abs \div (10 ^ f.exp)
        frac == abs % (10 ^ f.exp)
    IN  (IF f.mant < 0 THEN "-" ELSE "") \o FormatUint(int)
          \o (IF frac = 0 THEN "" ELSE "." \o FracDigits(frac, f.exp))

\* ------------------------------------------------- custom error messages
\* A value of Go's `any`: its dynamic type and the value itself.
AnyOf(type, v) == [type |-> type, v |-> v]

\* the dynamic types CustomErrMsg.Msg has a case for
SignedTypes == {"int", "int8", "int16", "int32", "int64"}
UnsignedTypes == {"uint", "uint8", "uint16", "uint32", "uint64"}
FloatTypes == {"float32", "float64"}

\* the placeholder CustomErrMsg.Msg looks for
ValueToken == "{VALUE}"

\* ErrMsg(v): &CustomErrMsg{msg: v}
ErrMsg(v) == [msg |-> v]

\* (mutant) only the first occurrence of the placeholder is replaced
MsgFirstOnly(c, v) ==
    LET msg == c.msg
        Once(s, new) ==
            LET i == CHOOSE k \in 1..Len(s) :
                        /\ SubSeq(s, k, k + Len(ValueToken) - 1) = ValueToken
                        /\ \A j \in 1..(k - 1) :
                              SubSeq(s, j, j + Len(ValueToken) - 1) # ValueToken
            IN  SubSeq(s, 1, i - 1) \o new
                  \o SubSeq(s, i + Len(ValueToken), Len(s))
    IN  IF ~Contains(msg, ValueToken) THEN msg
        ELSE CASE v.type = "string" -> Once(msg, v.v)
               [] v.type \in SignedTypes -> Once(msg, FormatInt(v.v))
               [] v.type \in UnsignedTypes -> Once(msg, FormatUint(v.v))
               [] v.type \in FloatTypes -> Once(msg, FormatFloat(v.v))
               [] v.type = "bool" -> Once(msg, FormatBool(v.v))
               [] OTHER -> msg

\* (mutant) a value of a type without a case renders as the empty string
MsgBlankDefault(c, v) ==
    LET msg == c.msg
    IN  IF ~Contains(msg, ValueToken) THEN msg
        ELSE CASE v.type = "string" -> Replace(msg, ValueToken, v.v)
               [] v.type \in SignedTypes ->
                     Replace(msg, ValueToken, FormatInt(v.v))
               [] v.type \in UnsignedTypes ->
                     Replace(msg, ValueToken, FormatUint(v.v))
               [] v.type \in FloatTypes ->
                     Replace(msg, ValueToken, FormatFloat(v.v))
               [] v.type = "bool" -> Replace(msg, ValueToken, FormatBool(v.v))
               [] OTHER -> Replace(msg, ValueToken, "")

\* (mutant) the test for the placeholder looks for an opening brace only
MsgLooseToken(c, v) ==
    LET msg == c.msg
    IN  IF ~Contains(msg, "{") THEN msg
        ELSE CASE v.type = "string" -> Replace(msg, "{", v.v)
               [] v.type \in SignedTypes -> Replace(msg, "{", FormatInt(v.v))
               [] v.type \in UnsignedTypes ->
                     Replace(msg, "{", FormatUint(v.v))
               [] v.type \in FloatTypes -> Replace(msg, "{", FormatFloat(v.v))
               [] v.type = "bool" -> Replace(msg, "{", FormatBool(v.v))
               [] OTHER -> msg

\* c.Msg(v): the template, with every {VALUE} replaced by the text of v when
\* v's dynamic type has a case in the type switch
Msg(c, v) ==
    LET msg == c.msg
    IN  IF ~Contains(msg, ValueToken) THEN msg
        ELSE CASE v.type = "string" -> Replace(msg, ValueToken, v.v)
               [] v.type \in SignedTypes ->
                     Replace(msg, ValueToken, FormatInt(v.v))
               [] v.type \in UnsignedTypes ->
                     Replace(msg, ValueToken, FormatUint(v.v))
               [] v.type \in FloatTypes ->
                     Replace(msg, ValueToken, FormatFloat(v.v))
               [] v.type = "bool" -> Replace(msg, ValueToken, FormatBool(v.v))
               [] OTHER -> msg

\* ------------------------------------------------------------ the actions
\* no option passed to an action's constructor
NoOption == <<>>

\* Msg() as the numberAction constructors call it: without a value
NoValue == AnyOf("nil", 0)

\* the range loop of extractMsg from option i on: every option that is a
\* CustomErrFace overwrites errMsg with its rendering of value
RECURSIVE extractMsgFrom(_, _, _, _)
extractMsgFrom(errMsg_, value, option, i) ==
    IF i > Len(option) THEN errMsg_
    ELSE extractMsgFrom(Msg(option[i], value), value, option, i + 1)

\* extractMsg(defaultMsg, value, option...) of the string, float and time
\* actions
extractMsg(defaultMsg, value, option) ==
    extractMsgFrom(defaultMsg, value, option, 1)

\* extractMsg(defaultMsg, option...) of the number actions: no value to
\* render, the message is settled when the action is constructed
extractMsgFixed(defaultMsg, option) ==
    extractMsgFrom(defaultMsg, NoValue, option, 1)

\* the closure `func(v T) string { return extractMsg(defaultMsg, v, option...) }`
MsgFunc(defaultMsg, option) == [defaultMsg |-> defaultMsg, option |-> option]

\* An action is its captured configuration: its Go type, which predicate, the
\* predicate's bound, and errorMsg (a string for a numberAction, a closure
\* for the others).
numberAction(fn, arg, errorMsg_) ==
    [type |-> "numberAction", fn |-> fn, arg |-> arg, errorMsg |-> errorMsg_]
stringAction(fn, arg, errorMsg_) ==
    [type |-> "stringAction", fn |-> fn, arg |-> arg, errorMsg |-> errorMsg_]
floatAction(fn, arg, errorMsg_) ==
    [type |-> "floatAction", fn |-> fn, arg |-> arg, errorMsg |-> errorMsg_]
timeAction(fn, arg, errorMsg_) ==
    [type |-> "timeAction", fn |-> fn, arg |-> arg, errorMsg |-> errorMsg_]

Min(min, option) ==
    numberAction("Min", min,
        extractMsgFixed("value must be at least specified minimum", option))
Max(max, option) ==
    numberAction("Max", max, extractMsgFixed("value exceeds maximum", option))
Gt(value, option) ==
    numberAction("Gt", value,
        extractMsgFixed("value must be greater than specified value", option))
Gte(value, option) ==
    numberAction("Gte", value,
        extractMsgFixed(
            "value must be greater than or equal to specified value", option))
Lt(value, option) ==
    numberAction("Lt", value,
        extractMsgFixed("value must be less than specified value", option))
Lte(value, option) ==
    numberAction("Lte", value,
        extractMsgFixed(
            "value must be less than or equal to specified value", option))

NotEmpty(option) ==
    stringAction("NotEmpty", 0, MsgFunc("cannot be empty", option))
IsEmail(option) ==
    stringAction("IsEmail", 0, MsgFunc("not a valid email", option))

GtFloat(value, option) ==
    floatAction("GtFloat", value,
        MsgFunc("value must be greater than specified value", option))
GteFloat(value, option) ==
    floatAction("GteFloat", value,
        MsgFunc("value must be greater than or equal to specified value",
                option))

\* a time.Time is an instant counted in days; the zero Time is day 0
ZeroTime == 0
NotZero(option) ==
    timeAction("NotZero", 0, MsgFunc("time cannot be zero value", option))
BeforeNow(option) ==
    timeAction("BeforeNow", 0, MsgFunc("time must be in the past", option))
AfterNow(option) ==
    timeAction("AfterNow", 0, MsgFunc("time must be in the future", option))
OldOf(days, option) ==
    LET d == IF days < 0 THEN 0 ELSE days
    IN  timeAction("OldOf", d,
            MsgFunc("time must be at least " \o FormatInt(d) \o " days old",
                    option))
NewOf(days, option) ==
    LET d == IF days < 0 THEN 0 ELSE days
    IN  timeAction("NewOf", d,
            MsgFunc("time must be at least " \o FormatInt(d)
                      \o " days in the future", option))

\* the strings the address checker accepts, among the strings of the model
WellFormedAddresses == {"user@example.com"}

\* a < b on floats written as decimals
FloatLess(a, b) == a.mant * (10 ^ b.exp) < b.mant * (10 ^ a.exp)

\* the wall clock that time.Now() reads, in days
VARIABLE now

\* (mutant) Gt compares with >= instead of >
validateGtInclusive(action, v) ==
    CASE action.fn = "Min" -> v >= action.arg
      [] action.fn = "Max" -> v <= action.arg
      [] action.fn = "Gt" -> v >= action.arg
      [] action.fn = "Gte" -> v >= action.arg
      [] action.fn = "Lt" -> v < action.arg
      [] action.fn = "Lte" -> v <= action.arg
      [] action.fn = "NotEmpty" -> v # ""
      [] action.fn = "IsEmail" -> v \in WellFormedAddresses
      [] action.fn = "GtFloat" -> FloatLess(action.arg, v)
      [] action.fn = "GteFloat" -> ~FloatLess(v, action.arg)
      [] action.fn = "NotZero" -> v # ZeroTime
      [] action.fn = "BeforeNow" -> v < now
      [] action.fn = "AfterNow" -> v > now
      [] action.fn = "OldOf" -> v < now - action.arg
      [] action.fn = "NewOf" -> v > now + action.arg

\* (mutant) NotZero written like AfterNow: it compares with the clock
validateNotZeroReadsClock(action, v) ==
    CASE action.fn = "Min" -> v >= action.arg
      [] action.fn = "Max" -> v <= action.arg
      [] action.fn = "Gt" -> v > action.arg
      [] action.fn = "Gte" -> v >= action.arg
      [] action.fn = "Lt" -> v < action.arg
      [] action.fn = "Lte" -> v <= action.arg
      [] action.fn = "NotEmpty" -> v # ""
      [] action.fn = "IsEmail" -> v \in WellFormedAddresses
      [] action.fn = "GtFloat" -> FloatLess(action.arg, v)
      [] action.fn = "GteFloat" -> ~FloatLess(v, action.arg)
      [] action.fn = "NotZero" -> v > now
      [] action.fn = "BeforeNow" -> v < now
      [] action.fn = "AfterNow" -> v > now
      [] action.fn = "OldOf" -> v < now - action.arg
      [] action.fn = "NewOf" -> v > now + action.arg

\* action.validate(v): the predicate the action's constructor captured
validate(action, v) ==
    CASE action.fn = "Min" -> v >= action.arg
      [] action.fn = "Max" -> v <= action.arg
      [] action.fn = "Gt" -> v > action.arg
      [] action.fn = "Gte" -> v >= action.arg
      [] action.fn = "Lt" -> v < action.arg
      [] action.fn = "Lte" -> v <= action.arg
      [] action.fn = "NotEmpty" -> v # ""
      [] action.fn = "IsEmail" -> v \in WellFormedAddresses
      [] action.fn = "GtFloat" -> FloatLess(action.arg, v)
      [] action.fn = "GteFloat" -> ~FloatLess(v, action.arg)
      [] action.fn = "NotZero" -> v # ZeroTime
      [] action.fn = "BeforeNow" -> v < now
      [] action.fn = "AfterNow" -> v > now
      [] action.fn = "OldOf" -> v < now - action.arg
      [] action.fn = "NewOf" -> v > now + action.arg

\* the dynamic type of the value an action of each Go type hands to Msg
ValueType(action) ==
    CASE action.type = "numberAction" -> "int64"
      [] action.type = "stringAction" -> "string"
      [] action.type = "floatAction" -> "float64"
      [] action.type = "timeAction" -> "time.Time"

\* the message of a failing action: the string fixed at construction for a
\* numberAction, `action.errorMsg(value)` for the others
errorMsgOf(action, value) ==
    IF action.type = "numberAction" THEN action.errorMsg
    ELSE extractMsg(action.errorMsg.defaultMsg,
                    AnyOf(ValueType(action), value), action.errorMsg.option)

\* (mutant) the error also says when the run was made
RunStamped(action, value) ==
    IF ~validate(action, value)
    THEN Errorf(errorMsgOf(action, value) \o " at " \o FormatInt(now))
    ELSE NilErr

\* action.Run(value): nil when the predicate holds, else the action's error
Run(action, value) ==
    IF ~validate(action, value) THEN Errorf(errorMsgOf(action, value))
    ELSE NilErr

\* --------------------------------------------------------------- the pipes
\* IntPipe(value, actions...), StringPipe(...), TimePipe(...): key is ""
IntPipe(value, actions) == [value |-> value, actions |-> actions, key |-> ""]
TimePipe(value, actions) == [value |-> value, actions |-> actions, key |-> ""]
StringPipe(value, actions) == [value |-> value, actions |-> actions, key |-> ""]

\* pipe.setKey(k)
setKey(pipe, k) == [pipe EXCEPT !.key = k]

\* pipe.Validate() from action index j on: the range loop over pipe.actions
RECURSIVE ValidateFrom(_, _)
ValidateFrom(pipe, j) ==
    IF j > Len(pipe.actions) THEN NilSchemaError
    ELSE LET err == Run(pipe.actions[j], pipe.value)
         IN  IF err # NilErr THEN SchemaError(pipe.key, err)
             ELSE ValidateFrom(pipe, j + 1)

\* pipe.Validate() as one call (what a ValidateAll worker invokes)
PipeValidate(pipe) == ValidateFrom(pipe, 1)

\* ------------------------------------------------------ inputs of the model
IntValues == {15, 18, 19, 20, 25}
IntActions ==
    {Min(18, NoOption), Max(20, NoOption), Gt(18, NoOption), Lte(19, NoOption)}
StringValues == {"", "user@example.com", "invalid-email"}
StringActions == {NotEmpty(NoOption), IsEmail(NoOption)}

\* all sequences over S of length 0..n
SeqsUpTo(S, n) == UNION {[1..k -> S] : k \in 0..n}

\* the stand-alone pipes a caller builds, of either type
IntPipes ==
    {IntPipe(v, as) : v \in IntValues, as \in SeqsUpTo(IntActions, MaxActions)}
StringPipes ==
    {StringPipe(v, as) : v \in StringValues,
                         as \in SeqsUpTo(StringActions, MaxActions)}

\* the fields of a schema: an age that must lie in 18..20
AgeActions == <<Min(18, NoOption), Max(20, NoOption)>>
FieldValues == {15, 19, 25}
Keys == {"a", "b", "c"}

\* the result of a call that was never made or has not returned yet
NotCalled == [notCalled |-> TRUE]

\* ------------------------------------------------------------------- state
VARIABLES
    heap,            \* the pipe objects, by identity: value, actions, key
    schema,          \* the PipeRegistry: its pipes slice (pipe identities)
    pc,              \* where the calling goroutine is
    idx,             \* position of the range loop over schema.pipes
    cur,             \* the pipe whose Validate() is running sequentially
    act,             \* position of the range loop over pipe.actions
    calls,           \* pipes whose Validate() the current call has invoked
    runLog,          \* actions the current sequential call has run, in order
    retPipe,         \* what the last stand-alone pipe.Validate() returned
    retValidate,     \* what the last schema.Validate() returned
    retValidateAll,  \* what the last schema.ValidateAll() returned
    wpc,             \* ValidateAll: where each worker goroutine is
    werr,            \* ValidateAll: each worker's err
    wtmp,            \* ValidateAll: the slice a worker read for its append
    mu,              \* ValidateAll: the mutex (0 free, else the holder)
    wg,              \* ValidateAll: the WaitGroup counter
    errs,            \* ValidateAll: the shared accumulator
    pipeMap,         \* the caller's map[string]PipeFace (key -> pipe identity)
    regKeys,         \* the map key each entry of schema.pipes was ranged under
    runAction,       \* the action a caller runs on its own
    runValue,        \* the value it runs it on
    retRun,          \* what the last action.Run(value) returned
    obsRun,          \* results the caller has seen from action.Run(value)
    obsValidate,     \* results the caller has seen from schema.Validate()
    obsValidateAll,  \* failing-key sets the caller has seen from ValidateAll()
    errMsg,          \* a CustomErrMsg object (its msg field)
    msgArg,          \* the value handed to errMsg.Msg
    msgRet,          \* what errMsg.Msg returned
    entry,           \* the package-level function a caller is in (or was last)
    fpc,             \* where that function is
    input,           \* the text handed to Parse, ParseBytes or Pattern
    rules,           \* what the schema's Rules() returns
    rulesCalls,      \* how often Rules() has been called
    retEntry,        \* what the package-level function returned
    joinArg,         \* the list handed to ErrorFromSchemaErrorList
    retJoin,         \* what ErrorFromSchemaErrorList returned
    gpc,             \* goroutines sharing one pipe: where each one is
    gact,            \* ... and the position of its range over pipe.actions
    va               \* overlapping ValidateAll() calls: each call's frame

vars == <<heap, schema, pc, idx, cur, act, calls, runLog, retPipe,
          retValidate, retValidateAll, wpc, werr, wtmp, mu, wg, errs,
          now, pipeMap, regKeys, runAction, runValue, retRun, obsRun, obsValidate,
          obsValidateAll, errMsg, msgArg, msgRet,
          entry, fpc, input, rules, rulesCalls, retEntry,
          joinArg, retJoin, gpc, gact, va>>

seqVars == <<idx, cur, act, calls, runLog>>
allVars == <<wpc, werr, wtmp, mu, wg, errs>>
retVars == <<retPipe, retValidate, retValidateAll>>
runVars == <<runAction, runValue, retRun, obsRun>>
obsVars == <<obsValidate, obsValidateAll>>
msgVars == <<errMsg, msgArg, msgRet>>
mapVars == <<pipeMap, regKeys>>
entryVars == <<entry, fpc, input, rules, rulesCalls, retEntry>>
joinVars == <<joinArg, retJoin>>
goVars == <<gpc, gact>>
extVars == <<entryVars, joinVars, goVars, va>>
baseAux == <<now, mapVars, runVars, obsVars, msgVars>>
auxVars == <<baseAux, extVars>>

InitCommon ==
    /\ idx = 0 /\ cur = 0 /\ act = 0
    /\ calls = <<>> /\ runLog = <<>>
    /\ retPipe = NotCalled /\ retValidate = NotCalled
    /\ retValidateAll = NotCalled
    /\ wpc = <<>> /\ werr = <<>> /\ wtmp = <<>>
    /\ mu = 0 /\ wg = 0 /\ errs = NilList

\* no action is being run on its own
InitRun ==
    /\ runAction = NotCalled /\ runValue = NotCalled
    /\ retRun = NotCalled /\ obsRun = {}

\* the caller has seen no result yet
InitObs == obsValidate = {} /\ obsValidateAll = {}

\* no CustomErrMsg is being rendered
InitMsg == errMsg = NotCalled /\ msgArg = NotCalled /\ msgRet = NotCalled

\* no package-level function has been called
InitEntry ==
    /\ entry = NotCalled /\ fpc = NotCalled /\ input = NotCalled
    /\ rules = NotCalled /\ rulesCalls = 0 /\ retEntry = NotCalled

\* ErrorFromSchemaErrorList has not been called
InitJoin == joinArg = NotCalled /\ retJoin = NotCalled

\* no goroutines share a pipe
InitGo == gpc = <<>> /\ gact = <<>>

\* no overlapping ValidateAll() calls
InitVa == va = <<>>

\* nothing beyond the registry and its pipes is in use
InitExt == InitEntry /\ InitJoin /\ InitGo /\ InitVa

\* the clock at process start, no map literal, nothing seen or rendered
InitAux ==
    /\ now = 0 /\ pipeMap = <<>> /\ regKeys = <<>>
    /\ InitRun /\ InitObs /\ InitMsg /\ InitExt

\* ------------------------------------------- stand-alone pipe.Validate()
\* (mutant) the range over pipe.actions starts at the second action
PipeValidateCallSkipFirst ==
    /\ pc = "pipe_idle"
    /\ pc' = "P_pipe"
    /\ cur' = 1 /\ act' = 2
    /\ calls' = <<1>> /\ runLog' = <<>>
    /\ retPipe' = NotCalled
    /\ UNCHANGED <<heap, schema, idx, retValidate, retValidateAll, allVars>>
    /\ UNCHANGED auxVars

\* the caller invokes Validate() on the pipe it built
PipeValidateCall ==
    /\ pc = "pipe_idle"
    /\ pc' = "P_pipe"
    /\ cur' = 1 /\ act' = 1
    /\ calls' = <<1>> /\ runLog' = <<>>
    /\ retPipe' = NotCalled
    /\ UNCHANGED <<heap, schema, idx, retValidate, retValidateAll, allVars>>
    /\ UNCHANGED auxVars

\* (mutant) the registry's loop drops a pipe's error and goes on
PipeReturnDropsError(r) ==
    IF pc = "P_pipe"
    THEN /\ retPipe' = r
         /\ pc' = "pipe_idle"
         /\ UNCHANGED <<idx, retValidate>>
    ELSE /\ UNCHANGED retPipe
         /\ idx' = idx + 1 /\ pc' = "V_range" /\ UNCHANGED retValidate

\* pipe.Validate() returns r to whoever called it: the stand-alone caller,
\* or the range loop of PipeRegistry.Validate (`if err != nil { return err }`)
PipeReturn(r) ==
    IF pc = "P_pipe"
    THEN /\ retPipe' = r
         /\ pc' = "pipe_idle"
         /\ UNCHANGED <<idx, retValidate>>
    ELSE /\ UNCHANGED retPipe
         /\ IF r # NilSchemaError
            THEN retValidate' = r /\ pc' = "idle" /\ UNCHANGED idx
            ELSE idx' = idx + 1 /\ pc' = "V_range" /\ UNCHANGED retValidate

\* (mutant) a failing action ends the loop only when it is the last one
PipeRunKeepGoing ==
    /\ pc \in {"P_pipe", "V_pipe"}
    /\ act <= Len(heap[cur].actions)
    /\ LET err == Run(heap[cur].actions[act], heap[cur].value)
       IN  /\ runLog' = Append(runLog, [pipe |-> cur, action |-> act])
           /\ IF err # NilErr /\ act = Len(heap[cur].actions)
              THEN PipeReturn(SchemaError(heap[cur].key, err)) /\ UNCHANGED act
              ELSE act' = act + 1
                   /\ UNCHANGED <<pc, idx, retPipe, retValidate>>
    /\ UNCHANGED <<heap, schema, cur, calls, retValidateAll, allVars>>
    /\ UNCHANGED auxVars

\* one iteration of `for _, action := range pipe.actions`
PipeRun ==
    /\ pc \in {"P_pipe", "V_pipe"}
    /\ act <= Len(heap[cur].actions)
    /\ LET err == Run(heap[cur].actions[act], heap[cur].value)
       IN  /\ runLog' = Append(runLog, [pipe |-> cur, action |-> act])
           /\ IF err # NilErr
              THEN PipeReturn(SchemaError(heap[cur].key, err)) /\ UNCHANGED act
              ELSE act' = act + 1
                   /\ UNCHANGED <<pc, idx, retPipe, retValidate>>
    /\ UNCHANGED <<heap, schema, cur, calls, retValidateAll, allVars>>
    /\ UNCHANGED auxVars

\* the range over pipe.actions is exhausted: `return nil`
PipeExit ==
    /\ pc \in {"P_pipe", "V_pipe"}
    /\ act > Len(heap[cur].actions)
    /\ PipeReturn(NilSchemaError)
    /\ UNCHANGED <<heap, schema, cur, act, calls, runLog, retValidateAll,
                   allVars>>
    /\ UNCHANGED auxVars

InitPipe ==
    /\ \/ heap \in {<<p>> : p \in IntPipes}
       \/ heap \in {<<p>> : p \in StringPipes}
    /\ schema = [pipes |-> <<>>]
    /\ pc = "pipe_idle"
    /\ InitCommon
    /\ InitAux

NextPipe == PipeValidateCall \/ PipeRun \/ PipeExit

SpecPipe == InitPipe /\ [][NextPipe]_vars

\* ----------------------------------------------------- building a schema
\* the sequence 1..n (pipe identities in creation order)
Ids(n) == [i \in 1..n |-> i]

\* the orders in which a range over a Go map with key set K can visit it
MapOrders(K) ==
    {o \in [1..Cardinality(K) -> K] : \A i, j \in DOMAIN o : o[i] = o[j] => i = j}

\* NewPipesBuilder(pipeEntries...): the registry keeps the caller's slice
NewPipesBuilder ==
    /\ pc = "new"
    /\ \E n \in 0..MaxPipes : \E vals \in [1..n -> FieldValues] :
         /\ heap' = [i \in 1..n |-> IntPipe(vals[i], AgeActions)]
         /\ schema' = [pipes |-> Ids(n)]
    /\ pc' = "idle"
    /\ UNCHANGED <<seqVars, retVars, allVars>>
    /\ UNCHANGED auxVars

\* NewPipesMap(pipeMap): ranges over the map (in an order the runtime picks),
\* sets each pipe's key to its map key and appends the pipe
NewPipesMap ==
    /\ pc = "new"
    /\ \E K \in SUBSET Keys : \E vals \in [K -> FieldValues] :
       \E order \in MapOrders(K) :
         /\ heap' = [i \in 1..Cardinality(K) |->
                        setKey(IntPipe(vals[order[i]], AgeActions), order[i])]
         /\ schema' = [pipes |-> Ids(Cardinality(K))]
    /\ pc' = "idle"
    /\ UNCHANGED <<seqVars, retVars, allVars>>
    /\ UNCHANGED auxVars

\* ------------------------------------------------ PipeRegistry.Validate()
\* the caller invokes schema.Validate()
ValidateCall ==
    /\ pc = "idle"
    /\ pc' = "V_range"
    /\ idx' = 1 /\ cur' = 0 /\ act' = 0
    /\ calls' = <<>> /\ runLog' = <<>>
    /\ retValidate' = NotCalled
    /\ UNCHANGED <<heap, schema, retPipe, retValidateAll, allVars>>
    /\ UNCHANGED auxVars

\* (mutant) the range stops one pipe short
ValidateRangeOneShort ==
    /\ pc = "V_range"
    /\ IF idx >= Len(schema.pipes)
       THEN /\ retValidate' = NilSchemaError
            /\ pc' = "idle"
            /\ UNCHANGED <<cur, act, calls>>
       ELSE /\ cur' = schema.pipes[idx]
            /\ act' = 1
            /\ calls' = Append(calls, schema.pipes[idx])
            /\ pc' = "V_pipe"
            /\ UNCHANGED retValidate
    /\ UNCHANGED <<heap, schema, idx, runLog, retPipe, retValidateAll,
                   allVars>>
    /\ UNCHANGED auxVars

\* `for _, pipe := range schema.pipes`: invoke the next pipe's Validate(),
\* or `return nil` when the range is exhausted
ValidateRange ==
    /\ pc = "V_range"
    /\ IF idx > Len(schema.pipes)
       THEN /\ retValidate' = NilSchemaError
            /\ pc' = "idle"
            /\ UNCHANGED <<cur, act, calls>>
       ELSE /\ cur' = schema.pipes[idx]
            /\ act' = 1
            /\ calls' = Append(calls, schema.pipes[idx])
            /\ pc' = "V_pipe"
            /\ UNCHANGED retValidate
    /\ UNCHANGED <<heap, schema, idx, runLog, retPipe, retValidateAll,
                   allVars>>
    /\ UNCHANGED auxVars

\* ---------------------------------------------- PipeRegistry.ValidateAll()
\* the caller invokes schema.ValidateAll(): fresh wg, mu and errs
ValidateAllCall ==
    /\ pc = "idle"
    /\ pc' = "VA_range"
    /\ idx' = 1
    /\ wg' = 0 /\ mu' = 0 /\ errs' = EmptyList
    /\ wpc' = [w \in 1..Len(schema.pipes) |-> "unspawned"]
    /\ werr' = [w \in 1..Len(schema.pipes) |-> NilSchemaError]
    /\ wtmp' = [w \in 1..Len(schema.pipes) |-> NilList]
    /\ retValidateAll' = NotCalled
    /\ UNCHANGED <<heap, schema, cur, act, calls, runLog, retPipe,
                   retValidate>>
    /\ UNCHANGED auxVars

\* one iteration of `for _, pipe := range schema.pipes`: wg.Add(1) and
\* `go func(p PipeFace) {...}(pipe)`; after the last one, go on to wg.Wait()
ValidateAllRange ==
    /\ pc = "VA_range"
    /\ IF idx <= Len(schema.pipes)
       THEN /\ wg' = wg + 1
            /\ wpc' = [wpc EXCEPT ![idx] = "validate"]
            /\ idx' = idx + 1
            /\ UNCHANGED pc
       ELSE /\ pc' = "VA_wait"
            /\ UNCHANGED <<wg, wpc, idx>>
    /\ UNCHANGED <<heap, schema, cur, act, calls, runLog, retVars, werr,
                   wtmp, mu, errs>>
    /\ UNCHANGED auxVars

\* the worker goroutines of the running (or last) call, by spawn position
Workers == DOMAIN wpc

\* (mutant) the goroutine reads the loop variable instead of its parameter
\* and finds the last pipe in it
WorkerValidateLoopVar(w) ==
    /\ wpc[w] = "validate"
    /\ LET err == PipeValidate(heap[schema.pipes[Len(schema.pipes)]])
       IN  /\ werr' = [werr EXCEPT ![w] = err]
           /\ wpc' = [wpc EXCEPT ![w] = IF err # NilSchemaError
                                         THEN "lock" ELSE "defer"]
    /\ UNCHANGED <<heap, schema, pc, seqVars, retVars, wtmp, mu, wg, errs>>
    /\ UNCHANGED auxVars

\* (mutant) the goroutine appends without taking the mutex
WorkerValidateNoLock(w) ==
    /\ wpc[w] = "validate"
    /\ LET err == PipeValidate(heap[schema.pipes[w]])
       IN  /\ werr' = [werr EXCEPT ![w] = err]
           /\ wpc' = [wpc EXCEPT ![w] = IF err # NilSchemaError
                                         THEN "append_read" ELSE "defer"]
    /\ UNCHANGED <<heap, schema, pc, seqVars, retVars, wtmp, mu, wg, errs>>
    /\ UNCHANGED auxVars

\* worker: `if err := p.Validate(); err != nil {`
WorkerValidate(w) ==
    /\ wpc[w] = "validate"
    /\ LET err == PipeValidate(heap[schema.pipes[w]])
       IN  /\ werr' = [werr EXCEPT ![w] = err]
           /\ wpc' = [wpc EXCEPT ![w] = IF err # NilSchemaError
                                         THEN "lock" ELSE "defer"]
    /\ UNCHANGED <<heap, schema, pc, seqVars, retVars, wtmp, mu, wg, errs>>
    /\ UNCHANGED auxVars

\* (mutant) mu.Lock() that does not wait for the holder
WorkerLockNoWait(w) ==
    /\ wpc[w] = "lock"
    /\ mu' = w
    /\ wpc' = [wpc EXCEPT ![w] = "append_read"]
    /\ UNCHANGED <<heap, schema, pc, seqVars, retVars, werr, wtmp, wg, errs>>
    /\ UNCHANGED auxVars

\* worker: mu.Lock() (blocks while another goroutine holds the mutex)
WorkerLock(w) ==
    /\ wpc[w] = "lock"
    /\ mu = 0
    /\ mu' = w
    /\ wpc' = [wpc EXCEPT ![w] = "append_read"]
    /\ UNCHANGED <<heap, schema, pc, seqVars, retVars, werr, wtmp, wg, errs>>
    /\ UNCHANGED auxVars

\* worker: append(errs, err) reads the shared slice ...
WorkerAppendRead(w) ==
    /\ wpc[w] = "append_read"
    /\ wtmp' = [wtmp EXCEPT ![w] = errs]
    /\ wpc' = [wpc EXCEPT ![w] = "append_write"]
    /\ UNCHANGED <<heap, schema, pc, seqVars, retVars, werr, mu, wg, errs>>
    /\ UNCHANGED auxVars

\* ... and `errs = ` stores the extended slice back
WorkerAppendWrite(w) ==
    /\ wpc[w] = "append_write"
    /\ errs' = [isNil |-> FALSE, items |-> Append(wtmp[w].items, werr[w])]
    /\ wtmp' = [wtmp EXCEPT ![w] = NilList]
    /\ wpc' = [wpc EXCEPT ![w] = "unlock"]
    /\ UNCHANGED <<heap, schema, pc, seqVars, retVars, werr, mu, wg>>
    /\ UNCHANGED auxVars

\* (mutant) the mutex is never released
WorkerUnlockKeepsMutex(w) ==
    /\ wpc[w] = "unlock"
    /\ wpc' = [wpc EXCEPT ![w] = "defer"]
    /\ UNCHANGED <<heap, schema, pc, seqVars, retVars, werr, wtmp, mu, wg,
                   errs>>
    /\ UNCHANGED auxVars

\* worker: mu.Unlock()
WorkerUnlock(w) ==
    /\ wpc[w] = "unlock"
    /\ mu' = 0
    /\ wpc' = [wpc EXCEPT ![w] = "defer"]
    /\ UNCHANGED <<heap, schema, pc, seqVars, retVars, werr, wtmp, wg, errs>>
    /\ UNCHANGED auxVars

\* worker: the deferred wg.Done() as the goroutine's function returns
WorkerDone(w) ==
    /\ wpc[w] = "defer"
    /\ wg' = wg - 1
    /\ wpc' = [wpc EXCEPT ![w] = "done"]
    /\ UNCHANGED <<heap, schema, pc, seqVars, retVars, werr, wtmp, mu, errs>>
    /\ UNCHANGED auxVars

\* a step of worker goroutine w
Worker(w) ==
    \/ WorkerValidate(w)
    \/ WorkerLock(w)
    \/ WorkerAppendRead(w)
    \/ WorkerAppendWrite(w)
    \/ WorkerUnlock(w)
    \/ WorkerDone(w)

\* (mutant) no wg.Wait(): the caller reads errs as soon as the loop ends
ValidateAllReturnNoWait ==
    /\ pc = "VA_wait"
    /\ retValidateAll' = IF Len(errs.items) = 0 THEN NilList ELSE errs
    /\ pc' = "idle"
    /\ UNCHANGED <<heap, schema, seqVars, retPipe, retValidate, allVars>>
    /\ UNCHANGED auxVars

\* (mutant) `return errs` without the len(errs) == 0 test
ValidateAllReturnRaw ==
    /\ pc = "VA_wait"
    /\ wg = 0
    /\ retValidateAll' = errs
    /\ pc' = "idle"
    /\ UNCHANGED <<heap, schema, seqVars, retPipe, retValidate, allVars>>
    /\ UNCHANGED auxVars

\* wg.Wait() unblocks at counter zero; then
\* `if len(errs) == 0 { return nil }; return errs`
ValidateAllReturn ==
    /\ pc = "VA_wait"
    /\ wg = 0
    /\ retValidateAll' = IF Len(errs.items) = 0 THEN NilList ELSE errs
    /\ pc' = "idle"
    /\ UNCHANGED <<heap, schema, seqVars, retPipe, retValidate, allVars>>
    /\ UNCHANGED auxVars

\* ------------------------------------------------------- the specification
Init ==
    /\ heap = <<>>
    /\ schema = [pipes |-> <<>>]
    /\ pc = "new"
    /\ InitCommon
    /\ InitAux

Next ==
    \/ NewPipesBuilder
    \/ NewPipesMap
    \/ ValidateCall
    \/ ValidateRange
    \/ PipeRun
    \/ PipeExit
    \/ ValidateAllCall
    \/ ValidateAllRange
    \/ \E w \in Workers : Worker(w)
    \/ ValidateAllReturn

Spec == Init /\ [][Next]_vars

\* ------------------------------------------------------------ C1, C2: pipes
\* the actions of a pipe whose predicate is false on the pipe's value
FailingActions(pipe) ==
    {j \in 1..Len(pipe.actions) : ~validate(pipe.actions[j], pipe.value)}

\* the least element of a non-empty set of positions
Least(S) == CHOOSE j \in S : \A k \in S : j <= k

\* a stand-alone pipe.Validate() has returned
PipeReturned == retPipe # NotCalled

\* C1: pipe.Validate() returns an error iff some action's predicate is false
\* on the pipe's value; the error is then the one of the first such action in
\* list order, under the pipe's key; an empty action list gives no error.
C1_FirstFailingAction ==
    PipeReturned =>
        LET pipe == heap[1]
            failing == FailingActions(pipe)
        IN  /\ (retPipe # NilSchemaError) <=> (failing # {})
            /\ failing # {} =>
                  retPipe = SchemaError(pipe.key,
                                Errorf(errorMsgOf(pipe.actions[Least(failing)],
                                                  pipe.value)))
            /\ pipe.actions = <<>> => retPipe = NilSchemaError

\* witness of C1: a pipe whose first action passes and whose second fails
C1_Witness ==
    /\ PipeReturned
    /\ retPipe # NilSchemaError
    /\ Least(FailingActions(heap[1])) = 2

\* C2: during one pipe.Validate() the actions run strictly in list order, and
\* an action is only run when every action before it passed: after a failure
\* no later action runs, and the error returned is the one of the last action
\* that ran.
C2_InOrderStopAtFailure ==
    pc \in {"P_pipe", "pipe_idle"} =>
        LET pipe == heap[1]
        IN  /\ \A k \in 1..Len(runLog) :
                  /\ runLog[k] = [pipe |-> 1, action |-> k]
                  /\ k < Len(runLog) => validate(pipe.actions[k], pipe.value)
            /\ (PipeReturned /\ retPipe # NilSchemaError) =>
                  /\ runLog # <<>>
                  /\ retPipe.Err =
                        Run(pipe.actions[Len(runLog)], pipe.value)

\* witness of C2: value "" with [NotEmpty, IsEmail]: only NotEmpty ran
C2_Witness ==
    /\ PipeReturned
    /\ retPipe = SchemaError("", Errorf("cannot be empty"))
    /\ runLog = <<[pipe |-> 1, action |-> 1]>>
    /\ heap[1] = StringPipe("", <<NotEmpty(NoOption), IsEmail(NoOption)>>)

\* ------------------------------------------------------- C3..C10: schemas
\* the pipe fails its own fail-fast validation
PipeFails(pipe) == FailingActions(pipe) # {}

\* the SchemaError a failing pipe reports: its key, its first failing action
ExpectedError(pipe) ==
    SchemaError(pipe.key,
                Errorf(errorMsgOf(pipe.actions[Least(FailingActions(pipe))],
                                  pipe.value)))

\* the positions of the schema whose pipe fails (K is their number)
FailingPositions ==
    {i \in 1..Len(schema.pipes) : PipeFails(heap[schema.pipes[i]])}

\* the last schema.Validate() has returned and no new one is running
ValidateReturned == retValidate # NotCalled

\* the last schema.ValidateAll() has returned and no new one is running
ValidateAllReturned == retValidateAll # NotCalled

\* C3: schema.Validate() invokes the pipes' Validate() in stored order (the
\* order the caller supplied them in), only while every earlier pipe
\* passed; it returns the error of the first failing pipe, having invoked no
\* pipe after it, and nil when every pipe passes.
C3_ValidateFirstFailingPipe ==
    /\ schema.pipes = Ids(Len(heap))
    /\ Len(calls) <= Len(schema.pipes)
    /\ pc # "pipe_idle" =>
         \A k \in 1..Len(calls) :
            /\ calls[k] = schema.pipes[k]
            /\ k < Len(calls) => ~PipeFails(heap[calls[k]])
    /\ ValidateReturned =>
         IF FailingPositions # {}
         THEN /\ retValidate =
                    ExpectedError(heap[schema.pipes[Least(FailingPositions)]])
              /\ Len(calls) = Least(FailingPositions)
         ELSE /\ retValidate = NilSchemaError
              /\ Len(calls) = Len(schema.pipes)

\* witness of C3: the second of three pipes failed and the third was not run
C3_Witness ==
    /\ ValidateReturned
    /\ Len(schema.pipes) = 3
    /\ FailingPositions = {2, 3}
    /\ calls = <<1, 2>>
    /\ retValidate # NilSchemaError

\* how many entries of the sequence s equal e
RECURSIVE Count(_, _)
Count(s, e) ==
    IF s = <<>> THEN 0
    ELSE (IF Head(s) = e THEN 1 ELSE 0) + Count(Tail(s), e)

\* C4: ValidateAll() returns exactly K entries, K the number of failing
\* pipes: every failing pipe's error occurs in the list as often as there
\* are failing pipes reporting that error, and nothing else occurs in it.
C4_ExactlyKEntries ==
    ValidateAllReturned =>
        LET items == retValidateAll.items
            expected == [i \in 1..Len(schema.pipes) |->
                            IF i \in FailingPositions
                            THEN ExpectedError(heap[schema.pipes[i]])
                            ELSE NilSchemaError]
        IN  /\ Len(items) = Cardinality(FailingPositions)
            /\ \A i \in FailingPositions :
                  Count(items, expected[i]) = Count(expected, expected[i])
            /\ \A k \in 1..Len(items) :
                  \E i \in FailingPositions : items[k] = expected[i]

\* witness of C4: three pipes, all failing, three entries returned
C4_Witness ==
    /\ ValidateAllReturned
    /\ Cardinality(FailingPositions) = 3
    /\ Len(retValidateAll.items) = 3

\* the worker is between mu.Lock() and mu.Unlock()
InCriticalSection(w) == wpc[w] \in {"append_read", "append_write", "unlock"}

\* C5: a worker reads or appends to errs only while it holds the mutex, so
\* no two workers are in the append critical section at once.
C5_AppendUnderMutex ==
    /\ \A w \in Workers : InCriticalSection(w) => mu = w
    /\ \A w1, w2 \in Workers :
          (InCriticalSection(w1) /\ InCriticalSection(w2)) => w1 = w2

\* witness of C5: one worker appends while another waits for the mutex
C5_Witness ==
    \E w1, w2 \in Workers :
        /\ wpc[w1] = "append_write"
        /\ wpc[w2] = "lock"
        /\ mu = w1

\* C6: when ValidateAll() has returned, every worker it started has
\* finished, the list it returned is the complete accumulator, and the
\* mutex and the wait group are at rest.
C6_ReturnAfterAllWorkers ==
    ValidateAllReturned =>
        /\ \A w \in Workers : wpc[w] = "done"
        /\ Len(wpc) = Len(schema.pipes)
        /\ retValidateAll.items = errs.items
        /\ mu = 0 /\ wg = 0

\* witness of C6: a call with three workers, two of them appending, returned
C6_Witness ==
    /\ pc = "idle"
    /\ retValidateAll # NotCalled
    /\ Len(wpc) = 3
    /\ Len(retValidateAll.items) = 2
    /\ \A w \in Workers : wpc[w] = "done"

\* the goroutines the scheduler runs: a runnable goroutine eventually runs
MaxWorkers ==
    IF MaxPipes > Cardinality(Keys) THEN MaxPipes ELSE Cardinality(Keys)

\* the callers that only ever use ValidateAll()
NextAll ==
    \/ NewPipesBuilder
    \/ NewPipesMap
    \/ ValidateAllCall
    \/ ValidateAllRange
    \/ \E w \in Workers : Worker(w)
    \/ ValidateAllReturn

FairSpec ==
    /\ Init /\ [][NextAll]_vars
    /\ WF_vars(ValidateAllRange \/ ValidateAllReturn)
    /\ \A w \in 1..MaxWorkers : WF_vars(w \in Workers /\ Worker(w))

\* a ValidateAll() call is in progress
ValidateAllRunning == pc \in {"VA_range", "VA_wait"}

\* C7: under fair scheduling every ValidateAll() call returns: each worker
\* runs to completion and signals the wait group exactly once (the counter
\* is the number of started, unfinished workers), the mutex ends up
\* released, and wg.Wait() unblocks.
C7_ValidateAllTerminates ==
    /\ [](wg = Cardinality({w \in Workers :
                               wpc[w] \notin {"unspawned", "done"}}))
    /\ ValidateAllRunning ~>
          (/\ pc = "idle"
           /\ \A w \in Workers : wpc[w] = "done"
           /\ mu = 0 /\ wg = 0)

\* witness of C7: a call returned although two workers contended for the
\* mutex on the way
C7_Witness ==
    /\ pc = "idle"
    /\ retValidateAll # NotCalled
    /\ Len(retValidateAll.items) = 3
    /\ mu = 0 /\ wg = 0

\* C8: schema.Validate() returns an error iff schema.ValidateAll() returns
\* a non-empty list, iff at least one pipe fails (K > 0).
C8_ValidateIffValidateAllNonEmpty ==
    /\ ValidateReturned =>
          ((retValidate # NilSchemaError) <=> (FailingPositions # {}))
    /\ ValidateAllReturned =>
          ((Len(retValidateAll.items) > 0) <=> (FailingPositions # {}))
    /\ (ValidateReturned /\ ValidateAllReturned) =>
          ((retValidate # NilSchemaError) <=> (Len(retValidateAll.items) > 0))

\* witness of C8: both calls made on a schema whose last pipe alone fails
C8_Witness ==
    /\ pc = "idle"
    /\ retValidate # NotCalled /\ retValidateAll # NotCalled
    /\ Len(schema.pipes) = 3
    /\ FailingPositions = {3}
    /\ retValidate # NilSchemaError
    /\ Len(retValidateAll.items) = 1

\* C9: ValidateAll() returns the nil list exactly when no pipe fails; a
\* non-nil list it returns holds at least one error.
C9_NilWhenNoFailure ==
    ValidateAllReturned =>
        /\ retValidateAll.isNil <=> (FailingPositions = {})
        /\ retValidateAll.isNil => retValidateAll = NilList
        /\ ~retValidateAll.isNil => Len(retValidateAll.items) >= 1

\* witness of C9: a schema of passing pipes gave the nil list
C9_Witness ==
    /\ ValidateAllReturned
    /\ Len(schema.pipes) >= 1
    /\ FailingPositions = {}
    /\ retValidateAll = NilList

\* the keys of the entries of a list
KeysOf(items) == {items[k].Key : k \in 1..Len(items)}

\* C10: for a schema of three fields of which two fail, ValidateAll()
\* returns two entries whose keys are exactly the two failing fields' names,
\* whatever the order of the fields and the order the workers complete in.
C10_TwoFailingOnePassing ==
    (/\ ValidateAllReturned
     /\ Len(schema.pipes) = 3
     /\ Cardinality(FailingPositions) = 2) =>
        /\ Len(retValidateAll.items) = 2
        /\ KeysOf(retValidateAll.items) =
              {heap[schema.pipes[i]].key : i \in FailingPositions}

\* witness of C10: fields "a" and "c" fail, "b" passes and is declared
\* last; the worker of "c" completed before the worker of "a"
C10_Witness ==
    /\ ValidateAllReturned
    /\ Len(schema.pipes) = 3
    /\ heap[schema.pipes[1]].key = "a"
    /\ heap[schema.pipes[2]].key = "c"
    /\ heap[schema.pipes[3]].key = "b"
    /\ FailingPositions = {1, 2}
    /\ Len(retValidateAll.items) = 2
    /\ retValidateAll.items[1].Key = "c"
    /\ retValidateAll.items[2].Key = "a"

\* ------------------------------------- schemas over the caller's own pipes
\* the loop body of NewPipesMap from the i-th visited key on:
\* `pipe.setKey(key)` on the pipe object the map holds under that key
RECURSIVE setKeysFrom(_, _, _)
setKeysFrom(h, order, i) ==
    IF i > Len(order) THEN h
    ELSE setKeysFrom([h EXCEPT ![pipeMap[order[i]]] = setKey(@, order[i])],
                     order, i + 1)

\* (mutant) the loop appends the pipes without calling setKey
NewPipesMapCallNoSetKey ==
    /\ pc \in {"new", "idle"}
    /\ \E order \in MapOrders(DOMAIN pipeMap) :
         /\ heap' = heap
         /\ schema' = [pipes |-> [i \in DOMAIN order |-> pipeMap[order[i]]]]
         /\ regKeys' = order
    /\ pc' = "idle"
    /\ retValidate' = NotCalled /\ retValidateAll' = NotCalled
    /\ calls' = <<>> /\ runLog' = <<>>
    /\ UNCHANGED <<idx, cur, act, retPipe, allVars>>
    /\ UNCHANGED <<now, pipeMap, runVars, obsVars, msgVars, extVars>>

\* NewPipesMap(pipeMap) on the map the caller holds: ranges over it in an
\* order the runtime picks, sets each pipe's key, appends the pipe; the
\* caller's schema variable now holds the new registry, which no call has
\* been made on
NewPipesMapCall ==
    /\ pc \in {"new", "idle"}
    /\ \E order \in MapOrders(DOMAIN pipeMap) :
         /\ heap' = setKeysFrom(heap, order, 1)
         /\ schema' = [pipes |-> [i \in DOMAIN order |-> pipeMap[order[i]]]]
         /\ regKeys' = order
    /\ pc' = "idle"
    /\ retValidate' = NotCalled /\ retValidateAll' = NotCalled
    /\ calls' = <<>> /\ runLog' = <<>>
    /\ UNCHANGED <<idx, cur, act, retPipe, allVars>>
    /\ UNCHANGED <<now, pipeMap, runVars, obsVars, msgVars, extVars>>

\* the wall clock advances
Tick ==
    /\ now < MaxNow
    /\ now' = now + 1
    /\ UNCHANGED <<heap, schema, pc, seqVars, retVars, allVars>>
    /\ UNCHANGED <<mapVars, runVars, obsVars, msgVars, extVars>>

\* the caller keeps what the calls it made returned: the *SchemaError of
\* Validate(), the keys of the list of ValidateAll()
Observe ==
    /\ pc = "idle"
    /\ obsValidate' = IF retValidate = NotCalled THEN obsValidate
                      ELSE obsValidate \cup {retValidate}
    /\ obsValidateAll' = IF retValidateAll = NotCalled THEN obsValidateAll
                         ELSE obsValidateAll \cup {KeysOf(retValidateAll.items)}
    /\ UNCHANGED <<heap, schema, pc, seqVars, retVars, allVars>>
    /\ UNCHANGED <<now, mapVars, runVars, msgVars, extVars>>

\* the first n keys a caller uses
KeySeq == <<"a", "b", "c">>

\* ------------------------------------------------ schemas of time fields
\* the zero Time, which NotZero rejects, and day 1, which is in the future
\* until the clock reaches it and in the past once the clock has passed it
TimeFieldPipes ==
    {TimePipe(ZeroTime, <<NotZero(NoOption)>>),
     TimePipe(1, <<NotZero(NoOption)>>),
     TimePipe(1, <<BeforeNow(NoOption)>>)}

\* the action's predicate calls time.Now()
ReadsClock(action) == action.fn \in {"BeforeNow", "AfterNow", "OldOf", "NewOf"}

\* a caller holding a map of time pipes, each under its own key
InitClock ==
    /\ \E n \in 1..MaxFields :
         /\ heap \in [1..n -> TimeFieldPipes]
         /\ pipeMap = [k \in {KeySeq[i] : i \in 1..n} |->
                          CHOOSE i \in 1..n : KeySeq[i] = k]
    /\ schema = [pipes |-> <<>>]
    /\ pc = "new"
    /\ InitCommon
    /\ now = 0 /\ regKeys = <<>>
    /\ InitRun /\ InitObs /\ InitMsg /\ InitExt

\* the schema is built once and then only validated
NewPipesMapOnce == pc = "new" /\ NewPipesMapCall

\* the caller has kept the results of the calls it made
Observed ==
    /\ retValidate # NotCalled => retValidate \in obsValidate
    /\ retValidateAll # NotCalled =>
          KeysOf(retValidateAll.items) \in obsValidateAll

\* the caller keeps every result before it calls again
ValidateCallNext == Observed /\ ValidateCall
ValidateAllCallNext == Observed /\ ValidateAllCall

NextClock ==
    \/ NewPipesMapOnce
    \/ Tick
    \/ Observe
    \/ ValidateCallNext
    \/ ValidateRange
    \/ PipeRun
    \/ PipeExit
    \/ ValidateAllCallNext
    \/ ValidateAllRange
    \/ \E w \in Workers : Worker(w)
    \/ ValidateAllReturn

SpecClock == InitClock /\ [][NextClock]_vars

\* ---------------------------------------------------------------------- C11
\* every Validate() the caller has seen failed, or every one passed; every
\* ValidateAll() it has seen returned the same set of failing keys
SameOutcomeEveryCall ==
    /\ \A r1, r2 \in obsValidate :
          (r1 = NilSchemaError) <=> (r2 = NilSchemaError)
    /\ \A k1, k2 \in obsValidateAll : k1 = k2

\* no action of any pipe of the schema reads the clock
ClockFreeSchema ==
    \A i \in 1..Len(schema.pipes) : \A j \in 1..Len(heap[schema.pipes[i]].actions) :
        ~ReadsClock(heap[schema.pipes[i]].actions[j])

\* C11 as stated: any number of Validate() and ValidateAll() calls on the
\* same unmodified schema give the same outcome: Validate() fails in every
\* call or in none, ValidateAll() returns the same set of failing keys.
C11_Original == SameOutcomeEveryCall

\* C11 as amended: the same, for a schema none of whose actions reads the
\* clock; the calls the caller has seen also agree with each other on
\* whether any field fails.
C11_IdempotentWithoutClock ==
    ClockFreeSchema =>
        /\ SameOutcomeEveryCall
        /\ \A r \in obsValidate : \A k \in obsValidateAll :
              (r # NilSchemaError) <=> (k # {})

\* witness of C11: a clock-free schema of two fields, one of them failing,
\* validated both ways before and after the clock advanced
C11_Witness ==
    /\ ClockFreeSchema
    /\ Len(schema.pipes) = 2
    /\ now = MaxNow
    /\ obsValidateAll = {{"b"}}
    /\ Cardinality(obsValidate) = 1
    /\ retValidate # NotCalled /\ retValidateAll # NotCalled
    /\ KeysOf(retValidateAll.items) = {"b"}

\* ------------------------------------------------ schemas of int fields
\* an age field that fails (15) or passes (19) the range check
MapFieldPipes == {IntPipe(15, AgeActions), IntPipe(19, AgeActions)}

\* a caller holding up to MaxFields pipes and a map literal that names each
\* of them under at least one of the keys it uses
InitMap ==
    /\ \E n \in 1..MaxFields : \E m \in n..MaxFields :
         /\ heap \in [1..n -> MapFieldPipes]
         /\ pipeMap \in {f \in [{KeySeq[i] : i \in 1..m} -> 1..n] :
                           \A p \in 1..n : \E k \in DOMAIN f : f[k] = p}
    /\ schema = [pipes |-> <<>>]
    /\ pc = "new"
    /\ InitCommon
    /\ now = 0 /\ regKeys = <<>>
    /\ InitRun /\ InitObs /\ InitMsg /\ InitExt

\* the caller builds the schema from its map (again and again) and validates
NextMap ==
    \/ NewPipesMapCall
    \/ Observe
    \/ ValidateCallNext
    \/ ValidateRange
    \/ PipeRun
    \/ PipeExit
    \/ ValidateAllCallNext
    \/ ValidateAllRange
    \/ \E w \in Workers : Worker(w)
    \/ ValidateAllReturn

SpecMap == InitMap /\ [][NextMap]_vars

\* ---------------------------------------------------------------------- C12
\* the keys the caller's map holds pipe p under
MappingKeys(p) == {k \in DOMAIN pipeMap : pipeMap[k] = p}

\* no pipe is in the map under two keys
PipeMapInjective ==
    \A k1, k2 \in DOMAIN pipeMap : pipeMap[k1] = pipeMap[k2] => k1 = k2

\* C12: once NewPipesMap has returned (and only then can the schema be
\* validated) every pipe of the mapping carries a key it is mapped under;
\* the error Validate() returns carries the mapping key of the pipe that
\* failed, and so does every entry of the list ValidateAll() returns.  When
\* each pipe has one mapping key, that is the key of the failing entry.
C12_ErrorsCarryMappingKey ==
    /\ pc = "new" <=> schema.pipes = <<>>
    /\ pc # "new" =>
          \A k \in DOMAIN pipeMap :
              /\ heap[pipeMap[k]].key \in MappingKeys(pipeMap[k])
              /\ PipeMapInjective => heap[pipeMap[k]].key = k
    /\ (ValidateReturned /\ retValidate # NilSchemaError) =>
          /\ retValidate.Key \in MappingKeys(calls[Len(calls)])
          /\ PipeFails(heap[calls[Len(calls)]])
          /\ PipeMapInjective => retValidate.Key = regKeys[Len(calls)]
    /\ ValidateAllReturned =>
          \A e \in 1..Len(retValidateAll.items) :
              \E i \in FailingPositions :
                  /\ retValidateAll.items[e].Key \in MappingKeys(schema.pipes[i])
                  /\ PipeMapInjective =>
                        retValidateAll.items[e].Key = regKeys[i]

\* witness of C12: fields "a" (passing) and "b" (failing), ranged over as
\* b, a: both calls report key "b"
C12_Witness ==
    /\ PipeMapInjective
    /\ regKeys = <<"b", "a">>
    /\ ValidateReturned /\ ValidateAllReturned
    /\ retValidate # NilSchemaError
    /\ retValidate.Key = "b"
    /\ KeysOf(retValidateAll.items) = {"b"}
    /\ ~PipeFails(heap[pipeMap["a"]])

\* ---------------------------------------------------------------------- C13
\* C13 as stated: for a schema built by NewPipesMap in which two or more
\* fields fail, building it from the same mapping and calling Validate()
\* again always reports the same field.
C13_Original ==
    PipeMapInjective =>
        \A r1, r2 \in obsValidate :
            (r1 # NilSchemaError /\ r2 # NilSchemaError) => r1.Key = r2.Key

\* --------------------------------------- a schema with a custom message
\* the message policies a caller passes to Min: with the placeholder (the
\* README's and the scenario's templates) and without it
AgeTemplates ==
    {"must be at least 18, but is {VALUE}",
     "You must be at least 18, but you are {VALUE}",
     "Must be at least 18 years old"}

\* map[string]PipeFace{"age": IntPipe(v, Min(18, ErrMsg(t)))}
InitAge ==
    /\ \E v \in IntValues : \E t \in AgeTemplates :
         heap = <<IntPipe(v, <<Min(18, <<ErrMsg(t)>>)>>)>>
    /\ pipeMap = [k \in {"age"} |-> 1]
    /\ schema = [pipes |-> <<>>]
    /\ pc = "new"
    /\ InitCommon
    /\ now = 0 /\ regKeys = <<>>
    /\ InitRun /\ InitObs /\ InitMsg /\ InitExt

NextAge ==
    \/ NewPipesMapOnce
    \/ ValidateCall
    \/ ValidateRange
    \/ PipeRun
    \/ PipeExit
    \/ ValidateAllCall
    \/ ValidateAllRange
    \/ \E w \in Workers : Worker(w)
    \/ ValidateAllReturn

SpecAge == InitAge /\ [][NextAge]_vars

\* ---------------------------------------------------------------------- C14
\* C14 as stated: the schema {"age": IntPipe(15, Min(18, ErrMsg("must be at
\* least 18, but is {VALUE}")))} validated with Validate() yields an error
\* with Key "age" whose message is exactly "must be at least 18, but is 15".
C14_Original ==
    (/\ ValidateReturned
     /\ heap[1].value = 15
     /\ heap[1].actions =
           <<Min(18, <<ErrMsg("must be at least 18, but is {VALUE}")>>)>>) =>
        retValidate =
            SchemaError("age", Errorf("must be at least 18, but is 15"))

\* ------------------------------------------------ actions run on their own
\* a call of an action constructor: which one, its bound, its options
Ctor(fn, arg, option) == [fn |-> fn, arg |-> arg, option |-> option]

\* the action the constructor call returns
New(c) ==
    CASE c.fn = "Min" -> Min(c.arg, c.option)
      [] c.fn = "Max" -> Max(c.arg, c.option)
      [] c.fn = "Gt" -> Gt(c.arg, c.option)
      [] c.fn = "Gte" -> Gte(c.arg, c.option)
      [] c.fn = "Lt" -> Lt(c.arg, c.option)
      [] c.fn = "Lte" -> Lte(c.arg, c.option)
      [] c.fn = "NotEmpty" -> NotEmpty(c.option)
      [] c.fn = "IsEmail" -> IsEmail(c.option)
      [] c.fn = "GtFloat" -> GtFloat(c.arg, c.option)
      [] c.fn = "GteFloat" -> GteFloat(c.arg, c.option)
      [] c.fn = "NotZero" -> NotZero(c.option)
      [] c.fn = "BeforeNow" -> BeforeNow(c.option)
      [] c.fn = "AfterNow" -> AfterNow(c.option)
      [] c.fn = "OldOf" -> OldOf(c.arg, c.option)
      [] c.fn = "NewOf" -> NewOf(c.arg, c.option)

\* the option lists a caller passes: none, a policy without the
\* placeholder, one with it, and two policies
RunOptions ==
    {NoOption,
     <<ErrMsg("rejected")>>,
     <<ErrMsg("{VALUE} is not allowed")>>,
     <<ErrMsg("rejected"), ErrMsg("got {VALUE}, try again")>>}

IntBounds == {18, 20}
IntCtors ==
    {Ctor(fn, b, o) : fn \in {"Min", "Max", "Gt", "Gte", "Lt", "Lte"},
                      b \in IntBounds, o \in RunOptions}
StringCtors == {Ctor(fn, 0, o) : fn \in {"NotEmpty", "IsEmail"}, o \in RunOptions}
FloatValues == {Float(5, 1), Float(15, 1), Float(200, 2)}
FloatCtors ==
    {Ctor(fn, Float(15, 1), o) : fn \in {"GtFloat", "GteFloat"}, o \in RunOptions}
TimeValues == {ZeroTime, 1, 2}
TimeCtors ==
    {Ctor(fn, 0, o) : fn \in {"NotZero", "BeforeNow", "AfterNow"},
                      o \in RunOptions}
      \cup {Ctor(fn, d, o) : fn \in {"OldOf", "NewOf"}, d \in {-1, 1},
                             o \in RunOptions}

\* a caller holding one action and one value of its type
InitAction ==
    /\ \/ \E c \in IntCtors : \E v \in IntValues :
            runAction = New(c) /\ runValue = v
       \/ \E c \in StringCtors : \E v \in StringValues :
            runAction = New(c) /\ runValue = v
       \/ \E c \in FloatCtors : \E v \in FloatValues :
            runAction = New(c) /\ runValue = v
       \/ \E c \in TimeCtors : \E v \in TimeValues :
            runAction = New(c) /\ runValue = v
    /\ retRun = NotCalled /\ obsRun = {}
    /\ heap = <<>> /\ schema = [pipes |-> <<>>]
    /\ pc = "run"
    /\ InitCommon
    /\ now = 0 /\ pipeMap = <<>> /\ regKeys = <<>>
    /\ InitObs /\ InitMsg /\ InitExt

\* the caller calls runAction.Run(runValue) and keeps the result together
\* with the clock reading of the call
RunCall ==
    /\ pc = "run"
    /\ retRun' = Run(runAction, runValue)
    /\ obsRun' = obsRun \cup {[at |-> now, ret |-> Run(runAction, runValue)]}
    /\ UNCHANGED <<runAction, runValue>>
    /\ UNCHANGED <<heap, schema, pc, seqVars, retVars, allVars>>
    /\ UNCHANGED <<now, mapVars, obsVars, msgVars, extVars>>

NextAction == RunCall \/ Tick

SpecAction == InitAction /\ [][NextAction]_vars

\* an action.Run(value) has returned
RunReturned == retRun # NotCalled

\* ---------------------------------------------------------------------- C15
\* the constructor calls that build actions of a Go type
CtorsOf(type) ==
    CASE type = "numberAction" -> IntCtors
      [] type = "stringAction" -> StringCtors
      [] type = "floatAction" -> FloatCtors
      [] type = "timeAction" -> TimeCtors

\* the built-in description of each action
DefaultDescription(c) ==
    CASE c.fn = "Min" -> "value must be at least specified minimum"
      [] c.fn = "Max" -> "value exceeds maximum"
      [] c.fn = "Gt" -> "value must be greater than specified value"
      [] c.fn = "Gte" ->
            "value must be greater than or equal to specified value"
      [] c.fn = "Lt" -> "value must be less than specified value"
      [] c.fn = "Lte" -> "value must be less than or equal to specified value"
      [] c.fn = "NotEmpty" -> "cannot be empty"
      [] c.fn = "IsEmail" -> "not a valid email"
      [] c.fn = "GtFloat" -> "value must be greater than specified value"
      [] c.fn = "GteFloat" ->
            "value must be greater than or equal to specified value"
      [] c.fn = "NotZero" -> "time cannot be zero value"
      [] c.fn = "BeforeNow" -> "time must be in the past"
      [] c.fn = "AfterNow" -> "time must be in the future"
      [] c.fn = "OldOf" ->
            IF c.arg = 1 THEN "time must be at least 1 days old"
            ELSE "time must be at least 0 days old"
      [] c.fn = "NewOf" ->
            IF c.arg = 1 THEN "time must be at least 1 days in the future"
            ELSE "time must be at least 0 days in the future"

\* C15 as stated: a failing action's message is its built-in default
\* description when no message policy was passed at construction, and
\* otherwise what the policy renders against the value given to Run.
C15_Original ==
    (RunReturned /\ retRun # NilErr) =>
        \A c \in CtorsOf(runAction.type) :
            runAction = New(c) =>
                retRun.msg =
                    IF c.option = NoOption THEN DefaultDescription(c)
                    ELSE Msg(c.option[Len(c.option)],
                             AnyOf(ValueType(runAction), runValue))

\* ---------------------------------------------------------------------- C19
\* C19: for every bound b, Gt(b) passes exactly the values greater than b
\* (so it fails on b itself) while Gte(b) and Min(b) pass exactly the
\* values from b on (so they pass on b); Lt(b) passes exactly the values
\* less than b (failing on b) while Lte(b) and Max(b) pass exactly the
\* values up to b (passing on b).  Gt(18) on 18 fails, Gte(18) on 18 passes.
C19_StrictVersusInclusive ==
    (RunReturned /\ runAction.type = "numberAction") =>
        LET b == runAction.arg
            passes == retRun = NilErr
        IN  /\ runAction.fn = "Gt" => (passes <=> runValue > b)
            /\ runAction.fn \in {"Gte", "Min"} => (passes <=> runValue >= b)
            /\ runAction.fn = "Lt" => (passes <=> runValue < b)
            /\ runAction.fn \in {"Lte", "Max"} => (passes <=> runValue <= b)
            /\ runValue = b =>
                  (passes <=> runAction.fn \in {"Gte", "Min", "Lte", "Max"})

\* witness of C19: Gt(18) was run on 18 and failed
C19_Witness ==
    /\ RunReturned
    /\ runAction = Gt(18, NoOption)
    /\ runValue = 18
    /\ retRun = Errorf("value must be greater than specified value")

TemplatePieces == {"{VALUE}", "{VALUE", " is too small", "x"}

\* the pieces written one after the other
RECURSIVE ConcatAll(_)
ConcatAll(ps) == IF ps = <<>> THEN "" ELSE Head(ps) \o ConcatAll(Tail(ps))

\* a caller holding a CustomErrMsg and a value of some dynamic type
InitMsgCall ==
    /\ \E ps \in SeqsUpTo(TemplatePieces, MaxPieces) :
         errMsg = ErrMsg(ConcatAll(ps))
    /\ \/ \E v \in {"", "abc", "{VALUE}"} : msgArg = AnyOf("string", v)
       \/ \E t \in SignedTypes, v \in {-120, 0, 5} : msgArg = AnyOf(t, v)
       \/ \E t \in UnsignedTypes, v \in {0, 5, 42} : msgArg = AnyOf(t, v)
       \/ \E t \in FloatTypes, v \in FloatValues \cup {Float(-5, 2)} :
             msgArg = AnyOf(t, v)
       \/ \E v \in BOOLEAN : msgArg = AnyOf("bool", v)
       \* a time.Time (what the time actions pass) and a nil interface
       \/ \E v \in TimeValues : msgArg = AnyOf("time.Time", v)
       \/ msgArg = NoValue
    /\ msgRet = NotCalled
    /\ heap = <<>> /\ schema = [pipes |-> <<>>]
    /\ pc = "msg"
    /\ InitCommon
    /\ now = 0 /\ pipeMap = <<>> /\ regKeys = <<>>
    /\ InitRun /\ InitObs /\ InitExt

\* the caller calls errMsg.Msg(msgArg)
MsgCall ==
    /\ pc = "msg"
    /\ msgRet' = Msg(errMsg, msgArg)
    /\ pc' = "msg_done"
    /\ UNCHANGED <<errMsg, msgArg>>
    /\ UNCHANGED <<heap, schema, seqVars, retVars, allVars>>
    /\ UNCHANGED <<now, mapVars, runVars, obsVars, extVars>>

NextMsg == MsgCall

SpecMsg == InitMsgCall /\ [][NextMsg]_vars

\* errMsg.Msg(msgArg) has returned
MsgReturned == pc = "msg_done"

\* the ways to put the template together from at most n pieces
Readings(template, n) ==
    {ps \in SeqsUpTo(TemplatePieces, n) : ConcatAll(ps) = template}

\* ---------------------------------------------------------------------- C16
\* C16: when the template does not contain {VALUE} (no piece of it is the
\* placeholder), Msg(v) returns the template unchanged, whatever the value
\* and its type.
C16_NoTokenVerbatim ==
    MsgReturned =>
        \A ps \in Readings(errMsg.msg, MaxPieces) :
            (\A i \in DOMAIN ps : ps[i] # ValueToken) => msgRet = errMsg.msg

\* witness of C16: a template with a cut-off placeholder came back unchanged
\* for an integer value
C16_Witness ==
    /\ MsgReturned
    /\ errMsg = ErrMsg("{VALUE is too small")
    /\ msgArg = AnyOf("int", 5)
    /\ msgRet = "{VALUE is too small"

\* ---------------------------------------------------------------------- C17
\* the dynamic types Msg renders
SupportedTypes ==
    {"string", "bool"} \cup SignedTypes \cup UnsignedTypes \cup FloatTypes

\* the textual form of the values of the model: a string as it is, an
\* integer in decimal, a float as the shortest decimal, a boolean as
\* true/false
TextOf(v) ==
    CASE v.type = "string" -> v.v
      [] v.type = "bool" -> (IF v.v THEN "true" ELSE "false")
      [] v.type \in SignedTypes \cup UnsignedTypes ->
            (CASE v.v = -120 -> "-120"
               [] v.v = 0 -> "0"
               [] v.v = 5 -> "5"
               [] v.v = 42 -> "42")
      [] v.type \in FloatTypes ->
            (CASE v.v = Float(5, 1) -> "0.5"
               [] v.v = Float(15, 1) -> "1.5"
               [] v.v = Float(200, 2) -> "2"
               [] v.v = Float(-5, 2) -> "-0.05")

\* C17: when the template contains {VALUE} and the value is a supported
\* scalar, Msg returns the template with every occurrence of the
\* placeholder replaced by the value's textual form and everything else as
\* it was; "{VALUE} is too small" with 5 gives "5 is too small".
C17_EveryOccurrenceReplaced ==
    (MsgReturned /\ msgArg.type \in SupportedTypes) =>
        \A ps \in Readings(errMsg.msg, MaxPieces) :
            msgRet = ConcatAll([i \in DOMAIN ps |->
                                   IF ps[i] = ValueToken THEN TextOf(msgArg)
                                   ELSE ps[i]])

\* witness of C17: the example of the claim
C17_Witness ==
    /\ MsgReturned
    /\ errMsg = ErrMsg("{VALUE} is too small")
    /\ msgArg = AnyOf("int", 5)
    /\ msgRet = "5 is too small"

\* ---------------------------------------------------------------------- C18
\* C18: when the value is of a type Msg has no case for (a time.Time, as
\* the time actions pass, or nil), Msg returns the template unmodified, its
\* {VALUE} placeholders still in it: a string, never an error.
C18_UnsupportedTypeVerbatim ==
    (MsgReturned /\ msgArg.type \notin SupportedTypes) =>
        /\ msgRet = errMsg.msg
        /\ Contains(errMsg.msg, ValueToken) => Contains(msgRet, ValueToken)

\* witness of C18: a template with two placeholders and a time.Time value
C18_Witness ==
    /\ MsgReturned
    /\ errMsg = ErrMsg("{VALUE}{VALUE}")
    /\ msgArg = AnyOf("time.Time", 2)
    /\ msgRet = "{VALUE}{VALUE}"

\* --------------------------------------- the package-level entry points
\* a nil *ParseErrors
NilParseErrors == [nilParseErrors |-> TRUE]

\* &ParseErrors{...}: the fields a return statement does not name are nil
ParseErrors(schemaErrors, preErrors, parseError) ==
    [SchemaErrors |-> schemaErrors, PreErrors |-> preErrors,
     ParseError |-> parseError, PostErrors |-> NilErr]

\* the JSON texts the decoder accepts, among those a caller hands in
WellFormedJSON == {"{\"age\":19}"}
JSONTexts == WellFormedJSON \cup {"{invalid json}"}

\* json.NewDecoder(reader).Decode(to) / json.Unmarshal(data, to)
Decode(text) ==
    IF text \in WellFormedJSON THEN NilErr
    ELSE Errorf("invalid character 'i' looking for beginning of object key string")

\* the patterns regexp accepts, among those a caller hands in
WellFormedPatterns == {"^[a-z]+$"}
PatternTexts == WellFormedPatterns \cup {"("}

\* a Pipeset interface value: nil, or a registry written as the values of
\* the schema's fields
NilPipeset == [isNil |-> TRUE, fields |-> <<>>]
Pipesets ==
    {NilPipeset} \cup
    {[isNil |-> FALSE, fields |-> f] : f \in SeqsUpTo(FieldValues, MaxFields)}

\* the errors a schema's Rules() returns
RulesErrors == {Errorf("age is missing")}

\* the schema's Rules() returns (pipeset, err): Include's (nil, nil), an
\* error with or without a pipeset, or a registry and no error
RulesReturns(pipeset, err) == rules = [pipeset |-> pipeset, err |-> err]

PreCheckKey == "_pre-check"

\* the package-level functions taking a Schema
SchemaEntryPoints == {"Validate", "ValidateAll", "Parse", "ParseBytes"}

\* a caller about to call Validate(s), ValidateAll(s), Parse(reader, s) or
\* ParseBytes(data, s) on a schema, or Pattern(regexStr)
InitParse ==
    /\ \/ /\ entry \in {"Validate", "ValidateAll"}
          /\ input = NotCalled /\ fpc = "rules"
          /\ \E ps \in Pipesets :
                \/ RulesReturns(ps, NilErr)
                \/ \E e \in RulesErrors : RulesReturns(ps, e)
       \/ /\ entry \in {"Parse", "ParseBytes"}
          /\ input \in JSONTexts /\ fpc = "decode"
          /\ \E ps \in Pipesets :
                \/ RulesReturns(ps, NilErr)
                \/ \E e \in RulesErrors : RulesReturns(ps, e)
       \/ /\ entry = "Pattern"
          /\ input \in PatternTexts /\ fpc = "compile"
          /\ rules = NotCalled
    /\ rulesCalls = 0 /\ retEntry = NotCalled
    /\ heap = <<>> /\ schema = [pipes |-> <<>>]
    /\ pc = "new"
    /\ InitCommon
    /\ now = 0 /\ pipeMap = <<>> /\ regKeys = <<>>
    /\ InitRun /\ InitObs /\ InitMsg
    /\ InitJoin /\ InitGo /\ InitVa

\* (mutant) a decode error is kept but the function goes on to Rules()
DecodeCallGoesOn ==
    /\ fpc = "decode"
    /\ retEntry' = IF Decode(input) # NilErr
                   THEN ParseErrors(NilList, NilErr, Decode(input))
                   ELSE retEntry
    /\ fpc' = "rules"
    /\ UNCHANGED <<entry, input, rules, rulesCalls>>
    /\ UNCHANGED <<heap, schema, pc, seqVars, retVars, allVars>>
    /\ UNCHANGED <<baseAux, joinVars, goVars, va>>

\* Parse / ParseBytes: decode into the schema; on an error return
\* &ParseErrors{ParseError: err}
DecodeCall ==
    /\ fpc = "decode"
    /\ IF Decode(input) # NilErr
       THEN /\ retEntry' = ParseErrors(NilList, NilErr, Decode(input))
            /\ fpc' = "done"
       ELSE /\ fpc' = "rules"
            /\ UNCHANGED retEntry
    /\ UNCHANGED <<entry, input, rules, rulesCalls>>
    /\ UNCHANGED <<heap, schema, pc, seqVars, retVars, allVars>>
    /\ UNCHANGED <<baseAux, joinVars, goVars, va>>

\* what each entry point returns when Rules() gave an error
PreCheckResult(e, err) ==
    CASE e = "Validate" -> SchemaError(PreCheckKey, err)
      [] e = "ValidateAll" ->
            [isNil |-> FALSE, items |-> <<SchemaError(PreCheckKey, err)>>]
      [] OTHER -> ParseErrors(NilList, err, NilErr)

\* the registry Rules() builds over the schema's fields, each pipe keyed
RulesHeap(f) == [i \in DOMAIN f |-> setKey(IntPipe(f[i], AgeActions), KeySeq[i])]

\* (mutant) the pipeset is looked at before the error
RulesCallPipesetFirst ==
    /\ fpc = "rules"
    /\ rulesCalls' = rulesCalls + 1
    /\ IF rules.pipeset # NilPipeset
       THEN /\ heap' = RulesHeap(rules.pipeset.fields)
            /\ schema' = [pipes |-> Ids(Len(rules.pipeset.fields))]
            /\ pc' = "idle" /\ fpc' = "call"
            /\ UNCHANGED retEntry
       ELSE /\ retEntry' = PreCheckResult(entry, rules.err)
            /\ fpc' = "done"
            /\ UNCHANGED <<heap, schema, pc>>
    /\ UNCHANGED <<entry, input, rules>>
    /\ UNCHANGED <<seqVars, retVars, allVars>>
    /\ UNCHANGED <<baseAux, joinVars, goVars, va>>

\* `rules, err := s.Rules()` and what follows it up to the call on the
\* pipeset: an error is returned under the sentinel key (Validate,
\* ValidateAll) or as PreErrors (Parse, ParseBytes); Parse and ParseBytes
\* return nil for a nil pipeset; Validate and ValidateAll call a method on
\* it, which on a nil interface is a nil-pointer dereference
RulesCall ==
    /\ fpc = "rules"
    /\ rulesCalls' = rulesCalls + 1
    /\ IF rules.err # NilErr
       THEN /\ retEntry' = PreCheckResult(entry, rules.err)
            /\ fpc' = "done"
            /\ UNCHANGED <<heap, schema, pc>>
       ELSE IF rules.pipeset = NilPipeset
       THEN /\ IF entry \in {"Parse", "ParseBytes"}
               THEN retEntry' = NilParseErrors /\ fpc' = "done"
               ELSE fpc' = "panic" /\ UNCHANGED retEntry
            /\ UNCHANGED <<heap, schema, pc>>
       ELSE /\ heap' = RulesHeap(rules.pipeset.fields)
            /\ schema' = [pipes |-> Ids(Len(rules.pipeset.fields))]
            /\ pc' = "idle" /\ fpc' = "call"
            /\ UNCHANGED retEntry
    /\ UNCHANGED <<entry, input, rules>>
    /\ UNCHANGED <<seqVars, retVars, allVars>>
    /\ UNCHANGED <<baseAux, joinVars, goVars, va>>

\* Validate: `return rules.Validate()`
RulesValidate ==
    /\ fpc = "call" /\ entry = "Validate"
    /\ retValidate = NotCalled
    /\ ValidateCall

\* ValidateAll, Parse, ParseBytes: `rules.ValidateAll()`
RulesValidateAll ==
    /\ fpc = "call" /\ entry \in {"ValidateAll", "Parse", "ParseBytes"}
    /\ retValidateAll = NotCalled
    /\ ValidateAllCall

\* the call on the pipeset has returned: Validate and ValidateAll return
\* its result, Parse and ParseBytes `&ParseErrors{SchemaErrors: errors}`
EntryReturn ==
    /\ fpc = "call" /\ pc = "idle"
    /\ IF entry = "Validate"
       THEN retValidate # NotCalled /\ retEntry' = retValidate
       ELSE /\ retValidateAll # NotCalled
            /\ retEntry' = IF entry = "ValidateAll" THEN retValidateAll
                           ELSE ParseErrors(retValidateAll, NilErr, NilErr)
    /\ fpc' = "done"
    /\ UNCHANGED <<entry, input, rules, rulesCalls>>
    /\ UNCHANGED <<heap, schema, pc, seqVars, retVars, allVars>>
    /\ UNCHANGED <<baseAux, joinVars, goVars, va>>

\* Pattern(regexStr): regexp.MustCompile panics on a pattern that does
\* not compile; otherwise the action is returned
PatternCall ==
    /\ fpc = "compile"
    /\ IF input \in WellFormedPatterns
       THEN /\ retEntry' = stringAction("Pattern", input,
                              MsgFunc("string doesn't follow the pattern " \o input,
                                      NoOption))
            /\ fpc' = "done"
       ELSE fpc' = "panic" /\ UNCHANGED retEntry
    /\ UNCHANGED <<entry, input, rules, rulesCalls>>
    /\ UNCHANGED <<heap, schema, pc, seqVars, retVars, allVars>>
    /\ UNCHANGED <<baseAux, joinVars, goVars, va>>

NextParse ==
    \/ DecodeCall
    \/ RulesCall
    \/ RulesValidate
    \/ RulesValidateAll
    \/ ValidateRange
    \/ PipeRun
    \/ PipeExit
    \/ ValidateAllRange
    \/ \E w \in Workers : Worker(w)
    \/ ValidateAllReturn
    \/ EntryReturn
    \/ PatternCall

SpecParse == InitParse /\ [][NextParse]_vars

\* the entry point has returned
EntryReturned == fpc = "done"

\* no pipe's Validate() has been called and no action run
NoPipeValidated ==
    /\ calls = <<>> /\ runLog = <<>>
    /\ \A w \in Workers : wpc[w] = "unspawned"

\* ---------------------------------------------------------------------- C21
\* C21: when the schema's Rules() returns an error, v.Validate(s) returns a
\* SchemaError with Key "_pre-check" wrapping that error, v.ValidateAll(s)
\* returns a list of exactly that one sentinel error, and no pipe is
\* validated, whether or not Rules() also returned a pipeset.
C21_PreCheckSentinel ==
    (entry \in {"Validate", "ValidateAll"} /\ rules.err # NilErr) =>
        /\ NoPipeValidated
        /\ fpc # "call"
        /\ EntryReturned =>
              LET sentinel == [Key |-> "_pre-check", Err |-> rules.err]
              IN  IF entry = "Validate" THEN retEntry = sentinel
                  ELSE /\ ~retEntry.isNil
                       /\ retEntry.items = <<sentinel>>

\* witness of C21: ValidateAll(s) returned the sentinel although Rules()
\* also handed back a registry with two failing fields
C21_Witness ==
    /\ entry = "ValidateAll" /\ EntryReturned
    /\ rules.err # NilErr
    /\ rules.pipeset.fields = <<15, 25>>
    /\ Len(retEntry.items) = 1
    /\ retEntry.items[1].Key = PreCheckKey

\* ---------------------------------------------------------------------- C22
\* C22: when decoding the input fails, Parse and ParseBytes return a
\* result with ParseError set, Rules() is never called, no pipe is
\* validated, and neither PreErrors nor SchemaErrors is set.
C22_DecodeFailureFirst ==
    (entry \in {"Parse", "ParseBytes"} /\ input \notin WellFormedJSON) =>
        /\ rulesCalls = 0
        /\ NoPipeValidated
        /\ EntryReturned =>
              /\ retEntry # NilParseErrors
              /\ retEntry.ParseError # NilErr
              /\ retEntry.PreErrors = NilErr
              /\ retEntry.SchemaErrors = NilList

\* witness of C22: ParseBytes returned on `{invalid json}` for a schema
\* whose Rules() would have given both an error and a failing field
C22_Witness ==
    /\ entry = "ParseBytes" /\ EntryReturned
    /\ input = "{invalid json}"
    /\ rules.err # NilErr /\ rules.pipeset.fields = <<15>>
    /\ retEntry.ParseError # NilErr

\* ---------------------------------------------------------------------- C23
\* C23 as stated: when Rules() returns a nil pipeset and no error (the
\* default of the embedded Include), every entry point (Parse, ParseBytes,
\* v.Validate, v.ValidateAll) skips validation and reports no error.
C23_Original ==
    (entry \in SchemaEntryPoints /\ rules = [pipeset |-> NilPipeset, err |-> NilErr]) =>
        /\ NoPipeValidated
        /\ fpc # "panic"
        /\ EntryReturned =>
              retEntry = (CASE entry = "Validate" -> NilSchemaError
                            [] entry = "ValidateAll" -> NilList
                            [] OTHER -> NilParseErrors)

\* ---------------------------------------------------------------------- C24
\* C24 as stated: no sequence of calls to action constructors, pipe and
\* schema constructors, Validate, ValidateAll, Parse or ParseBytes reaches
\* a panicking state, whatever the arguments (an invalid pattern string, a
\* schema whose Rules() yields a nil pipeset).
C24_Original == fpc # "panic"

\* ------------------------------------------- ErrorFromSchemaErrorList alone
\* errors.Join(a, b): nil arguments are discarded; nil if none is left,
\* else a joinError wrapping the others in order
Join(a, b) ==
    LET errs_ == SelectSeq(<<a, b>>, LAMBDA e : e # NilErr)
    IN  IF errs_ = <<>> THEN NilErr ELSE [errs |-> errs_]

\* the loop of ErrorFromSchemaErrorList from entry i on, err so far
RECURSIVE JoinFrom(_, _, _)
JoinFrom(items, i, err) ==
    IF i > Len(items) THEN err
    ELSE IF items[i] = NilSchemaError THEN JoinFrom(items, i + 1, err)
    ELSE JoinFrom(items, i + 1, Join(err, items[i].Err))

\* ErrorFromSchemaErrorList(e)
ErrorFromSchemaErrorList(e) ==
    IF e.isNil THEN NilErr ELSE JoinFrom(e.items, 1, Errorf(""))

\* the entries a caller puts into a list: a nil pointer, errors of two
\* fields, and an entry without a cause
ListEntries ==
    {NilSchemaError,
     SchemaError("a", Errorf("value must be at least 18")),
     SchemaError("b", Errorf("the string is empty")),
     SchemaError("c", NilErr)}

\* a caller holding a SchemaErrorList: nil, empty, or with entries
InitJoinCall ==
    /\ \/ joinArg = NilList
       \/ \E items \in SeqsUpTo(ListEntries, MaxList) :
             joinArg = [isNil |-> FALSE, items |-> items]
    /\ retJoin = NotCalled
    /\ heap = <<>> /\ schema = [pipes |-> <<>>]
    /\ pc = "join"
    /\ InitCommon
    /\ now = 0 /\ pipeMap = <<>> /\ regKeys = <<>>
    /\ InitRun /\ InitObs /\ InitMsg
    /\ InitEntry /\ InitGo /\ InitVa

\* the caller calls ErrorFromSchemaErrorList(joinArg)
ErrorFromSchemaErrorListCall ==
    /\ pc = "join"
    /\ retJoin' = ErrorFromSchemaErrorList(joinArg)
    /\ pc' = "join_done"
    /\ UNCHANGED joinArg
    /\ UNCHANGED <<heap, schema, seqVars, retVars, allVars>>
    /\ UNCHANGED <<baseAux, entryVars, goVars, va>>

NextJoin == ErrorFromSchemaErrorListCall

SpecJoin == InitJoinCall /\ [][NextJoin]_vars

\* the errors a (possibly joined) error is made of, in order
RECURSIVE Causes(_)
Causes(err) ==
    IF err = NilErr THEN <<>>
    ELSE IF "errs" \in DOMAIN err
    THEN IF Len(err.errs) = 1 THEN Causes(err.errs[1])
         ELSE Causes(err.errs[1]) \o Causes(err.errs[2])
    ELSE <<err>>

\* the causes of the list's non-nil entries, in list order
RECURSIVE EntryCauses(_)
EntryCauses(items) ==
    IF items = <<>> THEN <<>>
    ELSE (IF Head(items) = NilSchemaError THEN <<>>
          ELSE Causes(Head(items).Err)) \o EntryCauses(Tail(items))

\* ---------------------------------------------------------------------- C25
\* C25 as stated: ErrorFromSchemaErrorList returns nil when the list is
\* nil or empty; otherwise it returns one combined error made of exactly
\* the causes of the list's non-nil entries, in list order, nil entries
\* skipped and nothing else added.
C25_Original ==
    pc = "join_done" =>
        IF joinArg.isNil \/ joinArg.items = <<>>
        THEN retJoin = NilErr
        ELSE Causes(retJoin) = EntryCauses(joinArg.items)

\* ------------------------------------- goroutines validating the same pipe
\* NewStringPipe(value, actions...): a stringPipeManager, its key empty and
\* its error field nil
NewStringPipe(value, actions) ==
    [value |-> value, actions |-> actions, key |-> "", error |-> NilErr]

\* the goroutines that call Validate() on the pipe
Goroutines == DOMAIN gpc

\* a string pipe, and goroutines about to call its Validate()
InitShared ==
    /\ \E v \in StringValues, acts \in SeqsUpTo(StringActions, MaxActions) :
          heap = <<NewStringPipe(v, acts)>>
    /\ \E n \in 1..MaxGo :
          /\ gpc = [g \in 1..n |-> "go"]
          /\ gact = [g \in 1..n |-> 0]
    /\ schema = [pipes |-> <<>>]
    /\ pc = "shared"
    /\ InitCommon
    /\ now = 0 /\ pipeMap = <<>> /\ regKeys = <<>>
    /\ InitRun /\ InitObs /\ InitMsg
    /\ InitEntry /\ InitJoin /\ InitVa

\* goroutine g calls pipe.Validate(): the range over pipe.actions begins
GoValidateCall(g) ==
    /\ gpc[g] = "go"
    /\ gpc' = [gpc EXCEPT ![g] = "range"]
    /\ gact' = [gact EXCEPT ![g] = 1]
    /\ UNCHANGED <<heap, schema, pc, seqVars, retVars, allVars>>
    /\ UNCHANGED <<baseAux, entryVars, joinVars, va>>

\* `if err := action.Run(pipe.value); err != nil {`: reads pipe.actions
\* and pipe.value
GoRun(g) ==
    /\ gpc[g] = "range"
    /\ gact[g] <= Len(heap[1].actions)
    /\ IF Run(heap[1].actions[gact[g]], heap[1].value) # NilErr
       THEN gpc' = [gpc EXCEPT ![g] = "store"] /\ UNCHANGED gact
       ELSE gact' = [gact EXCEPT ![g] = gact[g] + 1] /\ UNCHANGED gpc
    /\ UNCHANGED <<heap, schema, pc, seqVars, retVars, allVars>>
    /\ UNCHANGED <<baseAux, entryVars, joinVars, va>>

\* `pipe.error = err; break`: writes the pipe's error field, and the
\* function returns
GoStore(g) ==
    /\ gpc[g] = "store"
    /\ heap' = [heap EXCEPT ![1].error =
                   Run(heap[1].actions[gact[g]], heap[1].value)]
    /\ gpc' = [gpc EXCEPT ![g] = "done"]
    /\ UNCHANGED gact
    /\ UNCHANGED <<schema, pc, seqVars, retVars, allVars>>
    /\ UNCHANGED <<baseAux, entryVars, joinVars, va>>

\* the range is exhausted: the function returns
GoExit(g) ==
    /\ gpc[g] = "range"
    /\ gact[g] > Len(heap[1].actions)
    /\ gpc' = [gpc EXCEPT ![g] = "done"]
    /\ UNCHANGED gact
    /\ UNCHANGED <<heap, schema, pc, seqVars, retVars, allVars>>
    /\ UNCHANGED <<baseAux, entryVars, joinVars, va>>

NextShared ==
    \E g \in Goroutines :
        \/ GoValidateCall(g)
        \/ GoRun(g)
        \/ GoStore(g)
        \/ GoExit(g)

SpecShared == InitShared /\ [][NextShared]_vars

\* goroutine g is about to write the pipe while goroutine h is inside
\* Validate() on it, reading or about to write it too
ConflictingAccess(g, h) ==
    /\ g # h
    /\ gpc[g] = "store"
    /\ gpc[h] \in {"range", "store"}

\* ---------------------------------------------------------------------- C26
\* C26 as stated: validation never writes to a pipe: Validate() leaves the
\* pipe's value, action list, key and every other field as its constructor
\* set them, so two concurrent Validate() calls on the same pipe have no
\* conflicting access.
C26_Original ==
    /\ heap[1] = NewStringPipe(heap[1].value, heap[1].actions)
    /\ \A g, h \in Goroutines : ~ConflictingAccess(g, h)

\* ---------------------------------------------------------------------- C27
\* C27 as stated: a pipe's key is the empty string from construction until
\* a schema insertion assigns it, and it is assigned at most once: after
\* the first assignment no schema construction or validation call changes
\* it.
C27_Original ==
    /\ [](pc = "new" => \A p \in DOMAIN heap : heap[p].key = "")
    /\ [][\A p \in DOMAIN heap :
             heap[p].key # "" => heap'[p].key = heap[p].key]_vars

\* ------------------------------------------- schemas of pre-keyed pipes
\* Entry(key): a PipeEntryKeyHolder
Entry(key) == [key |-> key]

\* pk.IntPipe(value, actions...): an IntPipeManager with value, actions and
\* a nil error; pk.key is not copied into it
EntryIntPipe(pk, value, actions) ==
    [value |-> value, actions |-> actions, key |-> ""]

\* NewPipesBuilder(Entry(k1).IntPipe(...), Entry(k2).IntPipe(...), ...): the
\* registry keeps the slice of pipes; regKeys are the keys given to Entry
NewPipesBuilderEntries ==
    /\ pc = "new"
    /\ \E n \in 1..MaxFields : \E vals \in [1..n -> FieldValues] :
         /\ heap' = [i \in 1..n |->
                        EntryIntPipe(Entry(KeySeq[i]), vals[i], AgeActions)]
         /\ schema' = [pipes |-> Ids(n)]
         /\ regKeys' = [i \in 1..n |-> KeySeq[i]]
    /\ pc' = "idle"
    /\ UNCHANGED <<seqVars, retVars, allVars>>
    /\ UNCHANGED <<now, pipeMap, runVars, obsVars, msgVars, extVars>>

NextEntry ==
    \/ NewPipesBuilderEntries
    \/ ValidateCall
    \/ ValidateRange
    \/ PipeRun
    \/ PipeExit
    \/ ValidateAllCall
    \/ ValidateAllRange
    \/ \E w \in Workers : Worker(w)
    \/ ValidateAllReturn

SpecEntry == Init /\ [][NextEntry]_vars

\* ---------------------------------------------------------------------- C28
\* C28 as stated: a pipe built through Entry(key).IntPipe holds that key
\* (Key() returns it), and every error of a schema that NewPipesBuilder
\* built from such pipes carries the key of the Entry that built the
\* failing pipe.
C28_Original ==
    /\ \A i \in 1..Len(schema.pipes) : heap[schema.pipes[i]].key = regKeys[i]
    /\ (ValidateReturned /\ retValidate # NilSchemaError) =>
          retValidate.Key = regKeys[Len(calls)]
    /\ ValidateAllReturned =>
          \A e \in 1..Len(retValidateAll.items) :
              \E i \in FailingPositions :
                  retValidateAll.items[e].Key = regKeys[i]

\* ---------------------------------------------------------------------- C29
\* a ValidateAll() call on the current schema is running or has returned
ValidateAllUnderWay == ValidateAllRunning \/ ValidateAllReturned

\* worker w has called its pipe's Validate()
HasValidated(w) == wpc[w] \notin {"unspawned", "validate"}

\* the pipes of the schema
SchemaPipes == {schema.pipes[i] : i \in 1..Len(schema.pipes)}

\* C29 as stated: every entry of the list ValidateAll() returns is the
\* SchemaError the corresponding pipe's own Validate() returns; each pipe's
\* Validate() is invoked exactly once per call, each worker validates a
\* distinct pipe, and no pipe contributes more than one entry.
C29_Original ==
    ValidateAllUnderWay =>
        /\ \A w \in Workers :
              HasValidated(w) => werr[w] = PipeValidate(heap[schema.pipes[w]])
        /\ \A w1, w2 \in Workers :
              w1 # w2 => schema.pipes[w1] # schema.pipes[w2]
        /\ ValidateAllReturned =>
              \E f \in [1..Len(retValidateAll.items) -> SchemaPipes] :
                  /\ \A e1, e2 \in DOMAIN f : f[e1] = f[e2] => e1 = e2
                  /\ \A e \in DOMAIN f :
                        retValidateAll.items[e] = PipeValidate(heap[f[e]])

\* C29 as amended: the same per entry of the schema's pipe list: there is
\* one worker per entry, it validates that entry's pipe (once: it holds the
\* result of that pipe's own Validate()), and the returned list has exactly
\* one entry for each failing entry of the pipe list, equal to what that
\* pipe's Validate() returns; a pipe inserted twice is validated twice.
C29_OneEntryPerListPosition ==
    ValidateAllUnderWay =>
        /\ Workers = 1..Len(schema.pipes)
        /\ \A w \in Workers :
              HasValidated(w) => werr[w] = PipeValidate(heap[schema.pipes[w]])
        /\ ValidateAllReturned =>
              /\ \A w \in Workers : wpc[w] = "done"
              /\ \E f \in [1..Len(retValidateAll.items) -> FailingPositions] :
                    /\ \A e1, e2 \in DOMAIN f : f[e1] = f[e2] => e1 = e2
                    /\ \A i \in FailingPositions : \E e \in DOMAIN f : f[e] = i
                    /\ \A e \in DOMAIN f :
                          retValidateAll.items[e] =
                              PipeValidate(heap[schema.pipes[f[e]]])

\* witness of C29: a failing pipe held under two keys, and a passing one;
\* the returned list has the failing pipe's SchemaError twice
C29_Witness ==
    /\ ValidateAllReturned
    /\ Len(schema.pipes) = 2
    /\ schema.pipes[1] = schema.pipes[2]
    /\ Len(retValidateAll.items) = 2
    /\ retValidateAll.items[1] = PipeValidate(heap[schema.pipes[1]])
    /\ retValidateAll.items[2] = retValidateAll.items[1]

\* ------------------------------ overlapping ValidateAll() calls on a schema
\* the goroutines that call schema.ValidateAll()
Callers == DOMAIN va

\* the locals of a ValidateAll() call that has not begun
NoFrame ==
    [pc |-> "go", idx |-> 0, wpc |-> <<>>, werr |-> <<>>, wtmp |-> <<>>,
     mu |-> 0, wg |-> 0, errs |-> NilList, ret |-> NotCalled]

\* a schema of keyed pipes (failing at 15, passing at 19), and two
\* goroutines about to call its ValidateAll()
InitOverlap ==
    /\ \E n \in 1..MaxFields : \E f \in [1..n -> {15, 19}] :
          /\ heap = RulesHeap(f)
          /\ schema = [pipes |-> Ids(n)]
    /\ va = <<NoFrame, NoFrame>>
    /\ pc = "overlap"
    /\ InitCommon
    /\ now = 0 /\ pipeMap = <<>> /\ regKeys = <<>>
    /\ InitRun /\ InitObs /\ InitMsg
    /\ InitEntry /\ InitJoin /\ InitGo

\* caller c enters ValidateAll(): its own wg, mu and errs
VaCall(c) ==
    /\ va[c].pc = "go"
    /\ va' = [va EXCEPT ![c] =
                [pc |-> "range", idx |-> 1,
                 wpc |-> [w \in 1..Len(schema.pipes) |-> "unspawned"],
                 werr |-> [w \in 1..Len(schema.pipes) |-> NilSchemaError],
                 wtmp |-> [w \in 1..Len(schema.pipes) |-> NilList],
                 mu |-> 0, wg |-> 0, errs |-> EmptyList, ret |-> NotCalled]]
    /\ UNCHANGED <<heap, schema, pc, seqVars, retVars, allVars>>
    /\ UNCHANGED <<baseAux, entryVars, joinVars, goVars>>

\* one iteration of caller c's `for _, pipe := range schema.pipes`:
\* wg.Add(1) and the go statement; after the last one, on to wg.Wait()
VaRange(c) ==
    /\ va[c].pc = "range"
    /\ va' = IF va[c].idx <= Len(schema.pipes)
             THEN [va EXCEPT ![c].wg = @ + 1,
                             ![c].wpc[va[c].idx] = "validate",
                             ![c].idx = @ + 1]
             ELSE [va EXCEPT ![c].pc = "wait"]
    /\ UNCHANGED <<heap, schema, pc, seqVars, retVars, allVars>>
    /\ UNCHANGED <<baseAux, entryVars, joinVars, goVars>>

\* (mutant) errs is one slice shared by all calls (that of the first caller)
VaWorkerSharedErrs(c, w) ==
    /\ \/ /\ va[c].wpc[w] = "validate"
          /\ LET err == PipeValidate(heap[schema.pipes[w]])
             IN  va' = [va EXCEPT ![c].werr[w] = err,
                                  ![c].wpc[w] = IF err # NilSchemaError
                                                THEN "lock" ELSE "defer"]
       \/ /\ va[c].wpc[w] = "lock"
          /\ va[c].mu = 0
          /\ va' = [va EXCEPT ![c].mu = w, ![c].wpc[w] = "append_read"]
       \/ /\ va[c].wpc[w] = "append_read"
          /\ va' = [va EXCEPT ![c].wtmp[w] = va[1].errs,
                              ![c].wpc[w] = "append_write"]
       \/ /\ va[c].wpc[w] = "append_write"
          /\ va' = [[va EXCEPT ![c].wtmp[w] = NilList,
                               ![c].wpc[w] = "unlock"]
                       EXCEPT ![1].errs =
                           [isNil |-> FALSE,
                            items |-> Append(va[c].wtmp[w].items, va[c].werr[w])]]
       \/ /\ va[c].wpc[w] = "unlock"
          /\ va' = [va EXCEPT ![c].mu = 0, ![c].wpc[w] = "defer"]
       \/ /\ va[c].wpc[w] = "defer"
          /\ va' = [va EXCEPT ![c].wg = @ - 1, ![c].wpc[w] = "done"]
    /\ UNCHANGED <<heap, schema, pc, seqVars, retVars, allVars>>
    /\ UNCHANGED <<baseAux, entryVars, joinVars, goVars>>

\* a step of worker goroutine w of caller c: p.Validate(); on an error
\* mu.Lock(), the append (read errs, store it back), mu.Unlock(); then the
\* deferred wg.Done(); mu, errs and wg are those of caller c's call
VaWorker(c, w) ==
    /\ \/ /\ va[c].wpc[w] = "validate"
          /\ LET err == PipeValidate(heap[schema.pipes[w]])
             IN  va' = [va EXCEPT ![c].werr[w] = err,
                                  ![c].wpc[w] = IF err # NilSchemaError
                                                THEN "lock" ELSE "defer"]
       \/ /\ va[c].wpc[w] = "lock"
          /\ va[c].mu = 0
          /\ va' = [va EXCEPT ![c].mu = w, ![c].wpc[w] = "append_read"]
       \/ /\ va[c].wpc[w] = "append_read"
          /\ va' = [va EXCEPT ![c].wtmp[w] = va[c].errs,
                              ![c].wpc[w] = "append_write"]
       \/ /\ va[c].wpc[w] = "append_write"
          /\ va' = [va EXCEPT ![c].errs =
                                  [isNil |-> FALSE,
                                   items |-> Append(va[c].wtmp[w].items,
                                                    va[c].werr[w])],
                              ![c].wtmp[w] = NilList,
                              ![c].wpc[w] = "unlock"]
       \/ /\ va[c].wpc[w] = "unlock"
          /\ va' = [va EXCEPT ![c].mu = 0, ![c].wpc[w] = "defer"]
       \/ /\ va[c].wpc[w] = "defer"
          /\ va' = [va EXCEPT ![c].wg = @ - 1, ![c].wpc[w] = "done"]
    /\ UNCHANGED <<heap, schema, pc, seqVars, retVars, allVars>>
    /\ UNCHANGED <<baseAux, entryVars, joinVars, goVars>>

\* caller c's wg.Wait() unblocks at counter zero; then
\* `if len(errs) == 0 { return nil }; return errs`
VaReturn(c) ==
    /\ va[c].pc = "wait"
    /\ va[c].wg = 0
    /\ va' = [va EXCEPT ![c].ret = IF Len(va[c].errs.items) = 0
                                   THEN NilList ELSE va[c].errs,
                        ![c].pc = "done"]
    /\ UNCHANGED <<heap, schema, pc, seqVars, retVars, allVars>>
    /\ UNCHANGED <<baseAux, entryVars, joinVars, goVars>>

NextOverlap ==
    \E c \in Callers :
        \/ VaCall(c)
        \/ VaRange(c)
        \/ \E w \in DOMAIN va[c].wpc : VaWorker(c, w)
        \/ VaReturn(c)

SpecOverlap == InitOverlap /\ [][NextOverlap]_vars

\* caller c is inside ValidateAll()
VaRunning(c) == va[c].pc \in {"range", "wait"}

\* ---------------------------------------------------------------------- C30
\* C30: ValidateAll() calls running at the same time on one schema do not
\* interfere: each works on its own accumulator, mutex and wait group, and
\* each returns exactly one entry for every failing field of the schema
\* (that field's own SchemaError), none missing and none added because of
\* the other call.
C30_CallsDoNotInterfere ==
    \A c \in Callers :
        /\ VaRunning(c) =>
              /\ va[c].wg = Cardinality({w \in DOMAIN va[c].wpc :
                                va[c].wpc[w] \notin {"unspawned", "done"}})
              /\ va[c].mu \in {0} \cup {w \in DOMAIN va[c].wpc :
                                va[c].wpc[w] \in {"append_read", "append_write",
                                                  "unlock"}}
              /\ \A e \in 1..Len(va[c].errs.items) :
                    \E w \in DOMAIN va[c].wpc :
                        /\ va[c].wpc[w] \in {"unlock", "defer", "done"}
                        /\ va[c].errs.items[e] = va[c].werr[w]
        /\ va[c].pc = "done" =>
              /\ Len(va[c].ret.items) = Cardinality(FailingPositions)
              /\ \A i \in FailingPositions :
                    \E e \in 1..Len(va[c].ret.items) :
                        va[c].ret.items[e] = PipeValidate(heap[schema.pipes[i]])
              /\ va[c].ret.isNil <=> FailingPositions = {}

\* witness of C30: the first caller has returned both failing fields while
\* the second caller's workers were in the middle of their appends
C30_Witness ==
    /\ Cardinality(FailingPositions) = 2
    /\ va[1].pc = "done" /\ Len(va[1].ret.items) = 2
    /\ va[2].pc = "wait"
    /\ Len(va[2].errs.items) = 1
    /\ \E w \in DOMAIN va[2].wpc : va[2].wpc[w] = "append_write"

====
